---- MODULE Spec2Model ----
(***************************************************************************)
(* ProtoScale-AI backend: the Redis job store (services/job_service.py),   *)
(* the upload endpoint (api/upload.py) and the Celery pipeline             *)
(* (tasks/pipeline.py and the five chained stage tasks).                   *)
(*                                                                         *)
(* Time is counted in ticks, TicksPerSecond ticks to the second.  A Redis  *)
(* key carries its expiry instant; Advance lets time pass and drops the    *)
(* keys whose instant has come.  Every Redis command (GET, TTL, SETEX) is  *)
(* one atomic step, and update_job is the three steps the code makes of    *)
(* it.  A Celery task is a process that walks the script of its function,  *)
(* one statement group per step.                                           *)
(*                                                                         *)
(* Four specifications share the state: Spec (uploads that pass validation *)
(* and the pipeline), SpecStore (JobService under two callers), SpecUpload *)
(* (every kind of upload request) and SpecApi (the download, result and    *)
(* dimension endpoints over the records and files the store can hold).     *)
(***************************************************************************)
EXTENDS Integers, Sequences, FiniteSets, TLC

\* ---------------------------------------------------------------- bounds
MaxJobs == 1
MaxAdvances == 1
TicksPerSecond == 2

\* ------------------------------------------------------ program constants
JOB_EXPIRY_SECONDS == 86400
MAX_CONTENT_LENGTH == 16777216
ALLOWED_EXTENSIONS == {"png", "jpg", "jpeg", "webp"}
GpuWorkerConcurrency == 1
\* 1.2 mm; lengths are in ten-thousandths of a millimetre
MIN_WALL_THICKNESS_MM == 12000

JobIds == 1..MaxJobs
Expiry == JOB_EXPIRY_SECONDS * TicksPerSecond
\* The clock steps the model takes: one tick, and a full time to live.
Deltas == {1, Expiry}

Null == "null"

\* class JobStatus: the members the enumeration defines, name |-> value.
JobStatusMembers ==
  {"UPLOADED", "GENERATING_MULTI_ANGLES", "PREPROCESSING", "RECONSTRUCTING_3D",
   "MESH_REPAIRING", "EXPORTING_STL", "DONE", "ERROR"}

JobStatus(member) ==
  CASE member = "UPLOADED" -> "uploaded"
    [] member = "GENERATING_MULTI_ANGLES" -> "generating_multi_angles"
    [] member = "PREPROCESSING" -> "preprocessing"
    [] member = "RECONSTRUCTING_3D" -> "reconstructing_3d"
    [] member = "RENDERING_PREVIEWS" -> "rendering_previews"
    [] member = "MESH_REPAIRING" -> "mesh_repairing"
    [] member = "EXPORTING_STL" -> "exporting_stl"
    [] member = "DONE" -> "done"
    [] member = "ERROR" -> "error"

\* ------------------------------------------------------------ the scripts
\* One entry per statement group of a task function, in source order.
\*   status   update_status(job_id, JobStatus.<a>, <b>)
\*   progress update_progress(job_id, <b>)
\*   set      update_job(job_id, {<a>: <file>}) through a set_* method
\*   done     set_done(job_id, ...)
\*   getjob   job = get_job(job_id), and the use the stage makes of it
\*   exists   <path>.exists() or raise FileNotFoundError
\*   call     a collaborator call that may raise
\*   save     a file written to storage (may raise)
\*   return   the task returns
Op(o, a, b) == [op |-> o, a |-> a, b |-> b]

\* preprocess_image recording the preprocessed image before it is saved.
PreprocessScriptSetFirst ==
  << Op("status", "PREPROCESSING", 0),
     Op("getjob", "job", 0),
     Op("exists", "upload", 0),
     Op("call", "Image.open", 0),
     Op("progress", "", 10),
     Op("call", "remove_background", 0),
     Op("progress", "", 15),
     Op("set", "preprocessed_image", 0),
     Op("save", "preprocessed.png", 0),
     Op("progress", "", 20),
     Op("return", "", 0) >>

PreprocessScript ==
  << Op("status", "PREPROCESSING", 0),
     Op("getjob", "job", 0),
     Op("exists", "upload", 0),
     Op("call", "Image.open", 0),
     Op("progress", "", 10),
     Op("call", "remove_background", 0),
     Op("progress", "", 15),
     Op("save", "preprocessed.png", 0),
     Op("set", "preprocessed_image", 0),
     Op("progress", "", 20),
     Op("return", "", 0) >>

\* reconstruct_3d with its first checkpoint below the last of preprocess_image.
ReconstructScriptRegress ==
  << Op("status", "RECONSTRUCTING_3D", 10),
     Op("exists", "preprocessed.png", 0),
     Op("call", "Image.open", 0),
     Op("progress", "", 55),
     Op("call", "reconstruct_mesh", 0),
     Op("progress", "", 65),
     Op("save", "raw_mesh.ply", 0),
     Op("set", "mesh_path", 0),
     Op("progress", "", 70),
     Op("return", "", 0) >>

\* reconstruct_3d handing update_status a progress above 100 (update_status
\* stores the number it is given).
ReconstructScriptOver ==
  [ReconstructScriptRegress EXCEPT ![1] = Op("status", "RECONSTRUCTING_3D", 150)]

ReconstructScript ==
  << Op("status", "RECONSTRUCTING_3D", 50),
     Op("exists", "preprocessed.png", 0),
     Op("call", "Image.open", 0),
     Op("progress", "", 55),
     Op("call", "reconstruct_mesh", 0),
     Op("progress", "", 65),
     Op("save", "raw_mesh.ply", 0),
     Op("set", "mesh_path", 0),
     Op("progress", "", 70),
     Op("return", "", 0) >>

RenderScript ==
  << Op("status", "RENDERING_PREVIEWS", 60),
     Op("exists", "raw_mesh.ply", 0),
     Op("call", "trimesh.load", 0),
     Op("progress", "", 65),
     Op("call", "render_multi_angle_previews", 0),
     Op("progress", "", 70),
     Op("save", "angle_0.png", 0),
     Op("save", "angle_90.png", 0),
     Op("save", "angle_180.png", 0),
     Op("save", "angle_270.png", 0),
     Op("set", "multi_angle_images", 0),
     Op("progress", "", 75),
     Op("return", "", 0) >>

RepairScript ==
  << Op("status", "MESH_REPAIRING", 60),
     Op("getjob", "mesh_path", 0),
     Op("exists", "raw_mesh.ply", 0),
     Op("call", "trimesh.load", 0),
     Op("progress", "", 68),
     Op("call", "validate", 0),
     Op("progress", "", 75),
     Op("call", "repair", 0),
     Op("progress", "", 85),
     Op("call", "validate", 0),
     Op("save", "repaired_mesh.ply", 0),
     Op("progress", "", 85),
     Op("return", "", 0) >>

\* export_mesh with its last checkpoint written after set_done.
ExportScriptDoneEarly ==
  << Op("status", "EXPORTING_STL", 90),
     Op("exists", "repaired_mesh.ply", 0),
     Op("call", "trimesh.load", 0),
     Op("progress", "", 92),
     Op("save", "model.stl", 0),
     Op("progress", "", 95),
     Op("save", "model.obj", 0),
     Op("call", "analysis", 0),
     Op("done", "", 100),
     Op("progress", "", 98),
     Op("return", "", 0) >>

ExportScript ==
  << Op("status", "EXPORTING_STL", 90),
     Op("exists", "repaired_mesh.ply", 0),
     Op("call", "trimesh.load", 0),
     Op("progress", "", 92),
     Op("save", "model.stl", 0),
     Op("progress", "", 95),
     Op("save", "model.obj", 0),
     Op("progress", "", 98),
     Op("call", "analysis", 0),
     Op("done", "", 100),
     Op("return", "", 0) >>

\* ------------------------------------------------------------- the tasks
\* chain(preprocess_image.si, reconstruct_3d.s, render_previews.s,
\*       repair_mesh.s, export_mesh.s)
\* The chain with its first two stages in the wrong order.
ChainSwapped ==
  <<"reconstruct_3d", "preprocess_image", "render_previews", "repair_mesh",
    "export_mesh">>

Chain ==
  <<"preprocess_image", "reconstruct_3d", "render_previews", "repair_mesh",
    "export_mesh">>

Stages == {Chain[i] : i \in 1..Len(Chain)}
Tasks == {"start_pipeline"} \cup Stages
\* Callers of the job store outside the pipeline (SpecStore).
Clients == {"client_a", "client_b"}
Procs == Tasks \cup Clients

ChainIndex(s) == CHOOSE i \in 1..Len(Chain) : Chain[i] = s

\* pipeline.apply_async() publishes the head of the chain; Celery publishes
\* each further task when the one before it has returned.
\* A group instead of a chain: every stage published at once.
ApplyAsyncGroup == Stages

ApplyAsyncPublishes == {Chain[1]}

Script(s) ==
  CASE s = "preprocess_image" -> PreprocessScript
    [] s = "reconstruct_3d" -> ReconstructScript
    [] s = "render_previews" -> RenderScript
    [] s = "repair_mesh" -> RepairScript
    [] s = "export_mesh" -> ExportScript

\* The stage tag each task hands to set_error.
ErrorStage(p) ==
  CASE p = "start_pipeline" -> "pipeline_start"
    [] p = "preprocess_image" -> "preprocessing"
    [] p = "reconstruct_3d" -> "reconstruction"
    [] p = "render_previews" -> "preview_rendering"
    [] p = "repair_mesh" -> "mesh_repair"
    [] p = "export_mesh" -> "export"

\* A routing table that sends only the preprocessing to the gpu queue.
QueuePreprocessOnly(p) ==
  IF p \in {"preprocess_image"} THEN "gpu" ELSE "cpu"

\* task_routes
Queue(p) ==
  IF p \in {"preprocess_image", "reconstruct_3d"} THEN "gpu" ELSE "cpu"

\* How a task ends once its except clause has run: the stages re-raise,
\* start_pipeline returns {"error": ...}.
\* An except clause without its raise: the task returns normally.
HandlerSwallows(p) == "succeeded"

HandlerOutcome(p) == IF p = "start_pipeline" THEN "succeeded" ELSE "failed"

\* ------------------------------------------------------------------ state
\* ------------------------------------------------------------- meshes
\* A mesh is a vertex table and a list of triangles (index triples).  The vertex
\* table is one of a few layouts of the vertices 1..MaxVertices in the plane:
\* in "general" no two vertices coincide and no three are collinear, in
\* "collinear" vertices 1, 2, 3 lie on one line, in "coincident" the last vertex
\* sits on vertex 1.  Areas are doubled, so that they are integers.
MaxVertices == 4
MaxFaces == 3

Layouts == {"general", "collinear", "coincident"}

Pos(layout, v) ==
  CASE layout = "collinear" /\ v <= 3 -> <<v, v>>
    [] layout = "coincident" /\ v = MaxVertices -> <<1, 1>>
    [] OTHER -> <<v, v * v>>

\* mesh.area_faces (doubled): half the norm of the cross product of two sides
area_faces(m, i) ==
  LET a == Pos(m.layout, m.faces[i][1])
      b == Pos(m.layout, m.faces[i][2])
      c == Pos(m.layout, m.faces[i][3])
      d == (b[1] - a[1]) * (c[2] - a[2]) - (c[1] - a[1]) * (b[2] - a[2])
  IN  IF d < 0 THEN 0 - d ELSE d

FaceIds(m) == DOMAIN m.faces

\* mesh.is_empty: no faces (a mesh rebuilt from no faces keeps no vertex either)
is_empty(m) == m.faces = <<>>

\* side k of the mesh: side ((k-1) mod 3)+1 of face ((k-1) div 3)+1
Edge(m, k) ==
  LET f == m.faces[((k - 1) \div 3) + 1]
      s == ((k - 1) % 3) + 1
  IN  <<f[s], f[(s % 3) + 1]>>

EdgeIds(m) == 1..(3 * Len(m.faces))

SortPair(e) == IF e[1] <= e[2] THEN e ELSE <<e[2], e[1]>>

\* mesh.edges_unique: the distinct undirected sides
edges_unique(m) == {SortPair(Edge(m, k)) : k \in EdgeIds(m)}

\* np.bincount(mesh.edges_unique_inverse): for each distinct side, the number
\* of sides of faces that are it
edge_face_count(m, e) ==
  Cardinality({k \in EdgeIds(m) : SortPair(Edge(m, k)) = e})

\* MeshValidator.is_watertight: trimesh's property, false on an empty mesh and
\* else true when the sides pair up: the sides that occur exactly twice are all
\* the sides
is_watertight(m) ==
  IF is_empty(m) THEN FALSE
  ELSE 2 * Cardinality({e \in edges_unique(m) : edge_face_count(m, e) = 2})
         = 3 * Len(m.faces)

is_manifold_at_least_two(m) ==
  \A e \in edges_unique(m) : edge_face_count(m, e) >= 2

\* MeshValidator.is_manifold: every count of the bincount is 2
is_manifold(m) ==
  \A e \in edges_unique(m) : edge_face_count(m, e) = 2

\* MeshValidator.has_degenerate_faces: the faces of area below 1e-10
has_degenerate_faces(m) ==
  Cardinality({i \in FaceIds(m) : area_faces(m, i) = 0})

\* MeshValidator.check_wall_thickness: the ray casting returns a dictionary whose
\* "passes" is true or false, or raises
RayOutcomes == {"passes", "thin", "raises"}

check_wall_thickness(ray) == [passes |-> ray = "passes", error |-> FALSE]

ThicknessAlways(watertight, ray) ==
  IF ray = "raises" THEN <<[passes |-> TRUE, error |-> TRUE]>>
  ELSE <<check_wall_thickness(ray)>>

\* the wall_thickness entry: None (<<>>) unless the mesh is watertight; when the
\* check raises, a dictionary that passes and carries the error text
Thickness(watertight, ray) ==
  IF ~watertight THEN <<>>
  ELSE IF ray = "raises" THEN <<[passes |-> TRUE, error |-> TRUE]>>
  ELSE <<check_wall_thickness(ray)>>

\* MeshValidator.validate
validate(m, ray) ==
  [watertight       |-> is_watertight(m),
   manifold         |-> is_manifold(m),
   degenerate_faces |-> has_degenerate_faces(m),
   wall_thickness   |-> Thickness(is_watertight(m), ray),
   is_valid         |-> is_watertight(m) /\ is_manifold(m)
                          /\ has_degenerate_faces(m) = 0]

EmptyMesh == [layout |-> "general", faces |-> <<>>]

\* ------------------------------------------------------------- mesh repair
\* mesh.merge_vertices: vertices at one position become one vertex (the one of
\* least index), and the faces refer to it
MergedVertex(layout, v) ==
  CHOOSE u \in 1..MaxVertices :
    /\ Pos(layout, u) = Pos(layout, v)
    /\ \A w \in 1..MaxVertices : Pos(layout, w) = Pos(layout, v) => u <= w

merge_vertices(m) ==
  [m EXCEPT !.faces =
     [i \in DOMAIN m.faces |->
        [s \in 1..3 |-> MergedVertex(m.layout, m.faces[i][s])]]]

\* trimesh.Trimesh(vertices=..., faces=..., process=True): the faces given, with
\* the vertices merged; no face is dropped
Trimesh(layout, faces) == merge_vertices([layout |-> layout, faces |-> faces])

\* MeshRepair.merge_close_vertices; a step whose library call raises returns the
\* mesh it was given
merge_close_vertices(m, ok) == IF ok THEN merge_vertices(m) ELSE m

Area2(layout, f) == area_faces([layout |-> layout, faces |-> <<f>>], 1)

\* MeshRepair.remove_degenerate: the faces of area above 1e-10, rebuilt
remove_degenerate(m, ok) ==
  IF ~ok THEN m
  ELSE IF \A i \in FaceIds(m) : area_faces(m, i) > 0 THEN m
  ELSE Trimesh(m.layout, SelectSeq(m.faces, LAMBDA f : Area2(m.layout, f) > 0))

\* np.sort(faces, axis=1): a face's indices in ascending order
SortFace(f) ==
  LET Least(a, b) == IF a <= b THEN a ELSE b
      Greatest(a, b) == IF a >= b THEN a ELSE b
      lo == Least(f[1], Least(f[2], f[3]))
      hi == Greatest(f[1], Greatest(f[2], f[3]))
  IN  <<lo, f[1] + f[2] + f[3] - lo - hi, hi>>

LexLess(a, b) ==
  \/ a[1] < b[1]
  \/ a[1] = b[1] /\ a[2] < b[2]
  \/ a[1] = b[1] /\ a[2] = b[2] /\ a[3] < b[3]

\* np.unique(faces_sorted, axis=0, return_index=True): for each distinct sorted
\* row the index of its first occurrence, the rows in lexicographic order
unique_indices(m) ==
  LET sorted == [i \in FaceIds(m) |-> SortFace(m.faces[i])]
      firsts == {i \in FaceIds(m) : \A k \in 1..(i - 1) : sorted[k] # sorted[i]}
      rank   == [i \in firsts |->
                   Cardinality({k \in firsts : LexLess(sorted[k], sorted[i])}) + 1]
  IN  [r \in 1..Cardinality(firsts) |-> CHOOSE i \in firsts : rank[i] = r]

\* MeshRepair.remove_duplicate_faces
remove_duplicate_faces(m, ok) ==
  LET u == unique_indices(m)
  IN  IF ~ok THEN m
      ELSE IF Len(u) = Len(m.faces) THEN m
      ELSE Trimesh(m.layout, [r \in DOMAIN u |-> m.faces[u[r]]])

\* mesh.fix_normals: every face wound the same way (counter-clockwise)
SignedArea2(layout, f) ==
  LET a == Pos(layout, f[1])
      b == Pos(layout, f[2])
      c == Pos(layout, f[3])
  IN  (b[1] - a[1]) * (c[2] - a[2]) - (c[1] - a[1]) * (b[2] - a[2])

\* MeshRepair.fix_normals
fix_normals(m, ok) ==
  IF ~ok THEN m
  ELSE [m EXCEPT !.faces =
          [i \in DOMAIN m.faces |->
             IF SignedArea2(m.layout, m.faces[i]) < 0
             THEN <<m.faces[i][1], m.faces[i][3], m.faces[i][2]>>
             ELSE m.faces[i]]]

\* the sides that occur once: the boundary of the holes
boundary_edges(m) == {e \in edges_unique(m) : edge_face_count(m, e) = 1}

\* the closed walks of three or four boundary sides, each once: the least
\* vertex first, then the smaller of its two neighbours
BoundaryCycles(m) ==
  LET V == 1..MaxVertices
      B == boundary_edges(m)
      Bounds(x, a, b) == SortPair(<<a, b>>) \in B
  IN  {c \in (V \X V \X V) :
         /\ c[1] < c[2] /\ c[2] < c[3]
         /\ Bounds(m, c[1], c[2]) /\ Bounds(m, c[2], c[3]) /\ Bounds(m, c[3], c[1])}
      \cup
      {c \in (V \X V \X V \X V) :
         /\ c[1] < c[2] /\ c[1] < c[3] /\ c[1] < c[4] /\ c[2] < c[4]
         /\ c[2] # c[3] /\ c[3] # c[4]
         /\ Bounds(m, c[1], c[2]) /\ Bounds(m, c[2], c[3])
         /\ Bounds(m, c[3], c[4]) /\ Bounds(m, c[4], c[1])}

\* networkx.cycle_basis of the boundary graph, the cycles of three or four sides
\* of it: when the boundary is a union of disjoint loops the basis is the loops;
\* otherwise the basis depends on the traversal, and any set of cycles may be it
HoleChoices(m) ==
  IF Len(m.faces) < 3 \/ is_watertight(m) \/ Cardinality(boundary_edges(m)) < 3
  THEN {{}}
  ELSE LET B == boundary_edges(m)
            BoundaryDegree(v) == Cardinality({e \in B : v \in {e[1], e[2]}})
       IN  IF \A v \in 1..MaxVertices : BoundaryDegree(v) \in {0, 2}
           THEN {BoundaryCycles(m)}
           ELSE SUBSET BoundaryCycles(m)

\* hole_to_faces: a triangle for a hole of three sides, two for one of four
hole_to_faces(c) ==
  IF Len(c) = 3 THEN <<c>> ELSE << <<c[1], c[2], c[3]>>, <<c[3], c[4], c[1]>> >>

RECURSIVE NewFaces(_)
NewFaces(holes) ==
  IF holes = {} THEN <<>>
  ELSE LET c == CHOOSE x \in holes :
                  \A y \in holes : Len(x) < Len(y) \/ (Len(x) = Len(y) /\ ~LexLess(y, x))
       IN  hole_to_faces(c) \o NewFaces(holes \ {c})

\* MeshRepair.fill_holes: trimesh's fill_holes on a copy, unless the mesh is
\* watertight already
fill_holes(m, ok, holes) ==
  IF is_watertight(m) \/ ~ok THEN m
  ELSE [m EXCEPT !.faces = m.faces \o NewFaces(holes)]

StepNames ==
  <<"merge_close_vertices", "remove_degenerate", "remove_duplicate_faces",
    "fix_normals", "fill_holes">>

\* the steps with the duplicate removal before the degenerate removal
RepairStepSwapped(k, m, failed) ==
  CASE k = 1 -> merge_close_vertices(m, StepNames[1] \notin failed)
    [] k = 2 -> remove_duplicate_faces(m, StepNames[3] \notin failed)
    [] k = 3 -> remove_degenerate(m, StepNames[2] \notin failed)
    [] k = 4 -> fix_normals(m, StepNames[4] \notin failed)

\* step k of MeshRepair.repair before the hole filling, given mesh m
RepairStep(k, m, failed) ==
  CASE k = 1 -> merge_close_vertices(m, StepNames[1] \notin failed)
    [] k = 2 -> remove_degenerate(m, StepNames[2] \notin failed)
    [] k = 3 -> remove_duplicate_faces(m, StepNames[3] \notin failed)
    [] k = 4 -> fix_normals(m, StepNames[4] \notin failed)

\* the meshes handed from step to step: each step is given the value the step
\* before returned
RECURSIVE Handed(_, _)
Handed(b, failed) ==
  IF Len(b) = 5 THEN b
  ELSE CHOOSE r \in {Handed(Append(b, x), failed) :
                       x \in {RepairStep(Len(b), b[Len(b)], failed)}} : TRUE

\* MeshRepair.repair up to the hole filling: the copy of the mesh, and what
\* steps 1 to 4 returned
BeforeFill(m, failed) == Handed(<<m>>, failed)

\* MeshRepair.repair: the five steps on a copy of the mesh; the record of the
\* calls made, in order, b being the meshes handed on before the hole filling
RepairCalls(b, failed, holes) ==
  [k \in 1..5 |->
     [name   |-> StepNames[k],
      given  |-> b[k],
      result |-> IF k < 5 THEN b[k + 1]
                 ELSE fill_holes(b[5], StepNames[5] \notin failed, holes)]]

repair(m, failed, holes) ==
  RepairCalls(BeforeFill(m, failed), failed, holes)[5].result

\* no mesh has been loaded
NoMesh ==
  [in |-> EmptyMesh, out |-> EmptyMesh, op |-> "none", failed |-> {},
   calls |-> <<>>, report |-> <<>>]

VARIABLES
  now,        \* the clock, in ticks
  advances,   \* clock steps taken
  redis,      \* job id -> <<>> (no key) or <<[val, exp]>>
  files,      \* job id -> the files on disk under the job's directories
  created,    \* uploads accepted so far (job ids 1..created are in use)
  proc,       \* job id -> process -> its control state and locals
  faulted,    \* job id -> a collaborator, file or broker operation raised or hung
  last,       \* job id -> <<>> or <<the value last written to the key>>
  runs,       \* job id -> task -> executions of the task begun for the job
  http,       \* the last upload request handled and the status code it got
  scaled,     \* job id -> the scaled meshes in the job's directory
  mesh,       \* the mesh under validation and repair, and what was last done to it
  jobs,       \* task_queue.jobs: job id -> <<>> (no entry) or <<the job's dict>>
  tasks,      \* the _run tasks trigger_3d created, in the order of their creation
  _pipeline,  \* hunyuan._pipeline: "unset" before startup, then "loaded" or "None"
  _model      \* triposr._model, and the calls made on the module so far

vars == <<now, advances, redis, files, created, proc, faulted, last, runs, http, scaled, mesh, jobs, tasks, _pipeline, _model>>

\* st: idle | queued | running | blocked | succeeded | failed;  pc: the script entry;
\* exc: the exception caught ("" for none);  phase, loc, ttl: where an
\* update_job call stands and its locals job and ttl;  arg, ret: the updates
\* a client passed and what update_job returned to it.
\* An upload request: the extension of the file name ("" when the name has
\* no dot), the number of bytes, whether the bytes decode as an image, and
\* whether the upload storage takes the file.
Request(ext, size, image, saved) ==
  [ext |-> ext, size |-> size, image |-> image, saved |-> saved]

NoRequest == Request("", 0, FALSE, FALSE)
GoodRequest == Request("png", 1, TRUE, TRUE)

IdleProc ==
  [st |-> "idle", pc |-> 0, exc |-> "", phase |-> "none", loc |-> <<>>,
   ttl |-> 0, arg |-> <<>>, ret |-> ""]

\* the application started, with room for the jobs of J
\* triposr._model at import: None.  A handle is None, the marker "fallback"
\* or a TSR object; id tells the objects of different loads apart.
NoHandle == [kind |-> "None", id |-> 0]

InitJobs(J) ==
  /\ now = 0
  /\ advances = 0
  /\ redis = [j \in J |-> <<>>]
  /\ files = [j \in J |-> {}]
  /\ created = 0
  /\ proc = [j \in J |-> [p \in Procs |-> IdleProc]]
  /\ faulted = [j \in J |-> FALSE]
  /\ last = [j \in J |-> <<>>]
  /\ runs = [j \in J |-> [p \in Tasks |-> 0]]
  /\ http = [req |-> NoRequest, code |-> 0]
  /\ scaled = [j \in J |-> {}]
  /\ jobs = [j \in J |-> <<>>]
  /\ tasks = <<>>
  /\ _pipeline = "unset"
  /\ _model = [handle |-> NoHandle, loads |-> 0, calls |-> <<>>]

InitSystem == InitJobs(JobIds)

Init == InitSystem /\ mesh = NoMesh

\* -------------------------------------------------------- Redis commands
\* GET key
RedisGet(j) == IF redis[j] = <<>> THEN <<>> ELSE <<redis[j][1].val>>

\* TTL key: the remaining time in whole seconds, rounded to the nearest;
\* -2 when the key does not exist.
RedisTtl(j) ==
  IF redis[j] = <<>> THEN -2
  ELSE (2 * (redis[j][1].exp - now) + TicksPerSecond) \div (2 * TicksPerSecond)

\* A store with one key for all jobs (a key that leaves the job id out).
RedisSetexOneKey(j, seconds, value) ==
  [k \in DOMAIN redis |-> <<[val |-> value, exp |-> now + seconds * TicksPerSecond]>>]

\* SETEX key seconds value, as the new contents of the store.
RedisSetex(j, seconds, value) ==
  [redis EXCEPT ![j] = <<[val |-> value, exp |-> now + seconds * TicksPerSecond]>>]

\* ------------------------------------------------------------ JobService
NewJob(j, image_path) ==
  [id |-> j, status |-> JobStatus("UPLOADED"), progress |-> 0,
   image_path |-> image_path, created_at |-> now, updated_at |-> now,
   error_message |-> Null, error_stage |-> Null, multi_angle_images |-> <<>>,
   preprocessed_image |-> Null, mesh_path |-> Null, stl_path |-> Null,
   obj_path |-> Null, analysis_data |-> Null]

\* A Merge that also resets the progress the updates did not name.
MergeResetsProgress(job, updates) ==
  [f \in DOMAIN job \cup DOMAIN updates |->
     IF f = "updated_at" THEN now
     ELSE IF f \in DOMAIN updates THEN updates[f]
     ELSE IF f = "progress" THEN 0 ELSE job[f]]

\* job.update(updates); job["updated_at"] = utcnow()
Merge(job, updates) ==
  [f \in DOMAIN job \cup DOMAIN updates |->
     IF f = "updated_at" THEN now
     ELSE IF f \in DOMAIN updates THEN updates[f] ELSE job[f]]

Min(a, b) == IF a < b THEN a ELSE b
Max(a, b) == IF a > b THEN a ELSE b

\* The value a set_* method stores under its field.
SetValue(field) ==
  CASE field = "preprocessed_image" -> "preprocessed.png"
    [] field = "mesh_path" -> "raw_mesh.ply"
    [] field = "multi_angle_images" ->
         <<"angle_0.png", "angle_90.png", "angle_180.png", "angle_270.png">>

\* The updates dictionary of the JobService call a script entry makes.
UpdatesOf(o) ==
  CASE o.op = "status" -> [status |-> JobStatus(o.a), progress |-> o.b]
    [] o.op = "progress" -> [progress |-> Min(100, Max(0, o.b))]
    [] o.op = "set" -> (o.a :> SetValue(o.a))
    [] o.op = "done" ->
         [status |-> JobStatus("DONE"), progress |-> 100,
          stl_path |-> "model.stl", obj_path |-> "model.obj",
          analysis_data |-> "analysis"]

\* A set_error that records the message and not the stage.
SetErrorUpdatesNoStage(message, stage) ==
  [status |-> JobStatus("ERROR"), error_message |-> message]

\* set_error(job_id, message, stage)
SetErrorUpdates(message, stage) ==
  [status |-> JobStatus("ERROR"), error_message |-> message,
   error_stage |-> stage]

UpdateOps == {"status", "progress", "set", "done"}

\* ---------------------------------------------------------------- helpers
Running(j, p) == proc[j][p].st = "running"
CurOp(j, p) == Script(p)[proc[j][p].pc]
InTry(j, p) == p \in Stages /\ Running(j, p) /\ proc[j][p].exc = ""

\* The process is at a JobService update call (or inside it).
AtUpdate(j, p) ==
  /\ Running(j, p)
  /\ \/ p \in Clients
     \/ proc[j][p].exc # ""
     \/ /\ p \in Stages
        /\ CurOp(j, p).op \in UpdateOps
        /\ CurOp(j, p).op = "status" => CurOp(j, p).a \in JobStatusMembers

Updates(j, p) ==
  IF p \in Clients THEN proc[j][p].arg
  ELSE IF proc[j][p].exc # "" THEN SetErrorUpdates(proc[j][p].exc, ErrorStage(p))
  ELSE UpdatesOf(CurOp(j, p))

\* The processes of job j once p has ended with the given outcome: a stage
\* that returned makes Celery publish the next task of the chain, when the
\* message that started it carried the chain (arg <<>>; a task published on
\* its own carries <<"direct">> and has no successor).
Finished(j, p, outcome) ==
  [q \in Procs |->
     IF q = p
     THEN [IdleProc EXCEPT !.st = outcome, !.exc = proc[j][p].exc,
                           !.arg = proc[j][p].arg,
                           !.ret = IF p \in Clients
                                   THEN (IF proc[j][p].loc = <<>> THEN "None" ELSE "job")
                                   ELSE ""]
     ELSE IF /\ outcome = "succeeded"
             /\ p \in Stages /\ q \in Stages
             /\ proc[j][p].arg = <<>>
             /\ ChainIndex(q) = ChainIndex(p) + 1
             /\ proc[j][q].st = "idle"
          THEN [IdleProc EXCEPT !.st = "queued"]
          ELSE proc[j][q]]

Advanced(j, p) ==
  [proc[j] EXCEPT ![p] =
     [@ EXCEPT !.pc = @ + 1, !.phase = "none", !.loc = <<>>, !.ttl = 0]]

Raised(j, p, e) == [proc[j] EXCEPT ![p] = [@ EXCEPT !.exc = e]]

\* The processes of job j once the update call of p has returned.
AfterUpdate(j, p) ==
  IF p \in Clients THEN Finished(j, p, "succeeded")
  ELSE IF proc[j][p].exc # "" THEN Finished(j, p, HandlerOutcome(p))
  ELSE Advanced(j, p)

GpuBusy ==
  Cardinality({jp \in (DOMAIN proc) \X Stages :
                 /\ Queue(jp[2]) = "gpu"
                 /\ proc[jp[1]][jp[2]].st \in {"running", "blocked"}})

\* The calls into the models (rembg, TripoSR), and how a call can end.
ModelCalls == {"remove_background", "reconstruct_mesh"}

CallOutcomes(c) ==
  IF c \in ModelCalls THEN {"returns", "raises", "hangs"} ELSE {"returns", "raises"}

\* ---------------------------------------------------------------- actions
\* JobService.create_job: the record of a fresh id, stored with the full
\* time to live.
create_job(j, image_path) ==
  /\ redis' = RedisSetex(j, JOB_EXPIRY_SECONDS, NewJob(j, image_path))
  /\ last' = [last EXCEPT ![j] = <<NewJob(j, image_path)>>]

\* str.lower() on the extensions the requests carry.
Lower(ext) == IF ext = "PNG" THEN "png" ELSE ext

\* An extension check that takes every name that has an extension.
AnyExtensionAllowed(ext) == ext # ""

\* UploadService._is_allowed_extension
IsAllowedExtension(ext) == Lower(ext) \in ALLOWED_EXTENSIONS

\* UploadService.validate_upload: "" when the file passes, or the message of
\* the ValidationError.
validate_upload(r) ==
  IF ~IsAllowedExtension(r.ext) THEN "Invalid file type"
  ELSE IF r.size = 0 THEN "Empty file"
  ELSE IF r.size > MAX_CONTENT_LENGTH THEN "File too large"
  ELSE IF ~r.image THEN "Invalid image file"
  ELSE ""

\* The status code of POST /upload for a request: Flask refuses a body over
\* MAX_CONTENT_LENGTH with 413 when request.files is read; a ValidationError
\* gives 400, any other exception 500.
UploadCode(r) ==
  IF r.size > MAX_CONTENT_LENGTH THEN 413
  ELSE IF validate_upload(r) # "" THEN 400
  ELSE IF ~r.saved THEN 500
  ELSE 201

\* POST /upload: validate_upload, save_upload, create_job,
\* start_pipeline.delay(job["id"]).
Upload(j, r) ==
  /\ j = created + 1
  /\ http' = [req |-> r, code |-> UploadCode(r)]
  /\ IF UploadCode(r) = 201
     THEN /\ created' = j
          /\ files' = [files EXCEPT ![j] = {"upload"}]
          /\ create_job(j, "upload")
          /\ proc' = [proc EXCEPT ![j]["start_pipeline"].st = "queued"]
     ELSE UNCHANGED <<created, files, redis, last, proc>>
  /\ UNCHANGED <<now, advances, faulted, runs, scaled, mesh, jobs, tasks, _pipeline, _model>>

\* A worker of the task's queue takes the task.
TaskBegin(j, p) ==
  /\ proc[j][p].st = "queued"
  /\ Queue(p) = "gpu" => GpuBusy < GpuWorkerConcurrency
  /\ proc' = [proc EXCEPT ![j][p] = [@ EXCEPT !.st = "running", !.pc = 1]]
  /\ runs' = [runs EXCEPT ![j][p] = @ + 1]
  /\ UNCHANGED <<now, advances, redis, files, created, faulted, last, http, scaled, mesh, jobs, tasks, _pipeline, _model>>

\* start_pipeline: job = get_job(job_id); if not job: return
StartPipelineGetJob(j) ==
  /\ Running(j, "start_pipeline")
  /\ proc[j]["start_pipeline"].pc = 1
  /\ proc' = [proc EXCEPT ![j] =
       IF RedisGet(j) = <<>> THEN Finished(j, "start_pipeline", "succeeded")
       ELSE Advanced(j, "start_pipeline")]
  /\ UNCHANGED <<now, advances, redis, files, created, faulted, last, runs, http, scaled, mesh, jobs, tasks, _pipeline, _model>>

\* start_pipeline: pipeline.apply_async(), which publishes or raises.
StartPipelineApplyAsync(j) ==
  /\ Running(j, "start_pipeline")
  /\ proc[j]["start_pipeline"].pc = 2
  /\ proc[j]["start_pipeline"].exc = ""
  /\ \E ok \in BOOLEAN :
       IF ok
       THEN /\ proc' = [proc EXCEPT ![j] =
                 [q \in Procs |->
                    IF q = "start_pipeline" THEN [IdleProc EXCEPT !.st = "succeeded"]
                    ELSE IF q \in ApplyAsyncPublishes /\ proc[j][q].st = "idle"
                         THEN [IdleProc EXCEPT !.st = "queued"]
                         ELSE proc[j][q]]]
            /\ UNCHANGED faulted
       ELSE /\ proc' = [proc EXCEPT ![j] = Raised(j, "start_pipeline", "apply_async")]
            /\ faulted' = [faulted EXCEPT ![j] = TRUE]
  /\ UNCHANGED <<now, advances, redis, files, created, last, runs, http, scaled, mesh, jobs, tasks, _pipeline, _model>>

\* update_status(job_id, JobStatus.X, n) where the enumeration has no X:
\* evaluating the argument raises AttributeError inside the try block.
RaiseAttributeError(j, p) ==
  /\ InTry(j, p)
  /\ CurOp(j, p).op = "status"
  /\ CurOp(j, p).a \notin JobStatusMembers
  /\ proc' = [proc EXCEPT ![j] = Raised(j, p, "AttributeError")]
  /\ UNCHANGED <<now, advances, redis, files, created, faulted, last, runs, http, scaled, mesh, jobs, tasks, _pipeline, _model>>

\* update_job, line 102: job = self.get_job(job_id); if not job: return None;
\* then job.update(updates) and the timestamp.
UpdateGet(j, p) ==
  /\ AtUpdate(j, p)
  /\ proc[j][p].phase = "none"
  /\ proc' = [proc EXCEPT ![j] =
       IF RedisGet(j) = <<>> THEN AfterUpdate(j, p)
       ELSE [proc[j] EXCEPT ![p] =
               [@ EXCEPT !.phase = "got",
                         !.loc = <<Merge(RedisGet(j)[1], Updates(j, p))>>]]]
  /\ UNCHANGED <<now, advances, redis, files, created, faulted, last, runs, http, scaled, mesh, jobs, tasks, _pipeline, _model>>

\* update_job, line 111: ttl = self.redis.ttl(key)
UpdateTtl(j, p) ==
  /\ AtUpdate(j, p)
  /\ proc[j][p].phase = "got"
  /\ proc' = [proc EXCEPT ![j][p] = [@ EXCEPT !.phase = "ttl", !.ttl = RedisTtl(j)]]
  /\ UNCHANGED <<now, advances, redis, files, created, faulted, last, runs, http, scaled, mesh, jobs, tasks, _pipeline, _model>>

\* update_job, lines 112-117: setex with the remaining time, or with
\* JOB_EXPIRY_SECONDS when ttl is not positive.
UpdateSetex(j, p) ==
  /\ AtUpdate(j, p)
  /\ proc[j][p].phase = "ttl"
  /\ redis' = RedisSetex(j,
                 IF proc[j][p].ttl > 0 THEN proc[j][p].ttl ELSE JOB_EXPIRY_SECONDS,
                 proc[j][p].loc[1])
  /\ last' = [last EXCEPT ![j] = proc[j][p].loc]
  /\ proc' = [proc EXCEPT ![j] = AfterUpdate(j, p)]
  /\ UNCHANGED <<now, advances, files, created, faulted, runs, http, scaled, mesh, jobs, tasks, _pipeline, _model>>

\* job = get_job(job_id) inside a stage, and what the stage does with it.
GetJobStep(j, p) ==
  /\ InTry(j, p)
  /\ CurOp(j, p).op = "getjob"
  /\ LET got == RedisGet(j) IN
       proc' = [proc EXCEPT ![j] =
         IF CurOp(j, p).a = "job"
         THEN IF got = <<>> THEN Raised(j, p, "ValueError") ELSE Advanced(j, p)
         ELSE IF got = <<>> THEN Raised(j, p, "AttributeError")
              ELSE IF got[1].mesh_path = Null THEN Raised(j, p, "FileNotFoundError")
              ELSE Advanced(j, p)]
  /\ UNCHANGED <<now, advances, redis, files, created, faulted, last, runs, http, scaled, mesh, jobs, tasks, _pipeline, _model>>

\* if not path.exists(): raise FileNotFoundError
ExistsStep(j, p) ==
  /\ InTry(j, p)
  /\ CurOp(j, p).op = "exists"
  /\ proc' = [proc EXCEPT ![j] =
       IF CurOp(j, p).a \in files[j] THEN Advanced(j, p)
       ELSE Raised(j, p, "FileNotFoundError")]
  /\ UNCHANGED <<now, advances, redis, files, created, faulted, last, runs, http, scaled, mesh, jobs, tasks, _pipeline, _model>>

\* A collaborator call: it returns or it raises; a model call may also never
\* return, and nothing in the task or in the Celery configuration limits the
\* time it takes (st "blocked": inside a call that does not end).
CallStep(j, p) ==
  /\ InTry(j, p)
  /\ CurOp(j, p).op = "call"
  /\ \E outcome \in CallOutcomes(CurOp(j, p).a) :
       CASE outcome = "returns" ->
              proc' = [proc EXCEPT ![j] = Advanced(j, p)] /\ UNCHANGED faulted
         [] outcome = "raises" ->
              /\ proc' = [proc EXCEPT ![j] = Raised(j, p, CurOp(j, p).a)]
              /\ faulted' = [faulted EXCEPT ![j] = TRUE]
         [] outcome = "hangs" ->
              /\ proc' = [proc EXCEPT ![j][p].st = "blocked"]
              /\ faulted' = [faulted EXCEPT ![j] = TRUE]
  /\ UNCHANGED <<now, advances, redis, files, created, last, runs, http, scaled, mesh, jobs, tasks, _pipeline, _model>>

\* A file written to the job's storage: written, or the write raises.
SaveStep(j, p) ==
  /\ InTry(j, p)
  /\ CurOp(j, p).op = "save"
  /\ \E ok \in BOOLEAN :
       IF ok
       THEN /\ proc' = [proc EXCEPT ![j] = Advanced(j, p)]
            /\ files' = [files EXCEPT ![j] = @ \cup {CurOp(j, p).a}]
            /\ UNCHANGED faulted
       ELSE /\ proc' = [proc EXCEPT ![j] = Raised(j, p, CurOp(j, p).a)]
            /\ faulted' = [faulted EXCEPT ![j] = TRUE]
            /\ UNCHANGED files
  /\ UNCHANGED <<now, advances, redis, created, last, runs, http, scaled, mesh, jobs, tasks, _pipeline, _model>>

\* The stage returns its result.
ReturnStep(j, p) ==
  /\ InTry(j, p)
  /\ CurOp(j, p).op = "return"
  /\ proc' = [proc EXCEPT ![j] = Finished(j, p, "succeeded")]
  /\ UNCHANGED <<now, advances, redis, files, created, faulted, last, runs, http, scaled, mesh, jobs, tasks, _pipeline, _model>>

\* Time passes; Redis drops the keys whose expiry instant has come.
Advance(d) ==
  /\ advances < MaxAdvances
  /\ advances' = advances + 1
  /\ now' = now + d
  /\ redis' = [j \in DOMAIN redis |->
       IF redis[j] # <<>> /\ redis[j][1].exp <= now + d THEN <<>> ELSE redis[j]]
  /\ UNCHANGED <<files, created, proc, faulted, last, runs, http, scaled, mesh, jobs, tasks, _pipeline, _model>>

Next ==
  \/ \E j \in JobIds : Upload(j, GoodRequest)
  \/ \E j \in JobIds, p \in Tasks : TaskBegin(j, p)
  \/ \E j \in JobIds : StartPipelineGetJob(j)
  \/ \E j \in JobIds : StartPipelineApplyAsync(j)
  \/ \E j \in JobIds, p \in Stages : RaiseAttributeError(j, p)
  \/ \E j \in JobIds, p \in Tasks : UpdateGet(j, p)
  \/ \E j \in JobIds, p \in Tasks : UpdateTtl(j, p)
  \/ \E j \in JobIds, p \in Tasks : UpdateSetex(j, p)
  \/ \E j \in JobIds, p \in Stages : GetJobStep(j, p)
  \/ \E j \in JobIds, p \in Stages : ExistsStep(j, p)
  \/ \E j \in JobIds, p \in Stages : CallStep(j, p)
  \/ \E j \in JobIds, p \in Stages : SaveStep(j, p)
  \/ \E j \in JobIds, p \in Stages : ReturnStep(j, p)
  \/ \E d \in Deltas : Advance(d)

Spec == Init /\ [][Next]_vars

\* ------------------------------------------------- several jobs, no clock
\* The uploads and pipelines of MaxGpuJobs jobs side by side, the records not
\* expiring meanwhile.
MaxGpuJobs == 2

GpuJobIds == 1..MaxGpuJobs

InitGpu == InitJobs(GpuJobIds) /\ mesh = NoMesh

NextGpu ==
  \/ \E j \in GpuJobIds : Upload(j, GoodRequest)
  \/ \E j \in GpuJobIds, p \in Tasks : TaskBegin(j, p)
  \/ \E j \in GpuJobIds : StartPipelineGetJob(j)
  \/ \E j \in GpuJobIds : StartPipelineApplyAsync(j)
  \/ \E j \in GpuJobIds, p \in Stages : RaiseAttributeError(j, p)
  \/ \E j \in GpuJobIds, p \in Tasks : UpdateGet(j, p)
  \/ \E j \in GpuJobIds, p \in Tasks : UpdateTtl(j, p)
  \/ \E j \in GpuJobIds, p \in Tasks : UpdateSetex(j, p)
  \/ \E j \in GpuJobIds, p \in Stages : GetJobStep(j, p)
  \/ \E j \in GpuJobIds, p \in Stages : ExistsStep(j, p)
  \/ \E j \in GpuJobIds, p \in Stages : CallStep(j, p)
  \/ \E j \in GpuJobIds, p \in Stages : SaveStep(j, p)
  \/ \E j \in GpuJobIds, p \in Stages : ReturnStep(j, p)

SpecGpu == InitGpu /\ [][NextGpu]_vars

\* ---------------------------------------------- several jobs and the clock
\* The uploads and pipelines of MaxGpuJobs jobs side by side, while time
\* passes and records expire.
SpecJobs ==
  InitGpu /\
  [][ \/ \E j \in GpuJobIds : Upload(j, GoodRequest)
      \/ \E j \in GpuJobIds, p \in Tasks : TaskBegin(j, p)
      \/ \E j \in GpuJobIds : StartPipelineGetJob(j)
      \/ \E j \in GpuJobIds : StartPipelineApplyAsync(j)
      \/ \E j \in GpuJobIds, p \in Stages : RaiseAttributeError(j, p)
      \/ \E j \in GpuJobIds, p \in Tasks : UpdateGet(j, p)
      \/ \E j \in GpuJobIds, p \in Tasks : UpdateTtl(j, p)
      \/ \E j \in GpuJobIds, p \in Tasks : UpdateSetex(j, p)
      \/ \E j \in GpuJobIds, p \in Stages : GetJobStep(j, p)
      \/ \E j \in GpuJobIds, p \in Stages : ExistsStep(j, p)
      \/ \E j \in GpuJobIds, p \in Stages : CallStep(j, p)
      \/ \E j \in GpuJobIds, p \in Stages : SaveStep(j, p)
      \/ \E j \in GpuJobIds, p \in Stages : ReturnStep(j, p)
      \/ \E d \in Deltas : Advance(d) ]_vars

\* ------------------------------------------------- stages executed again
\* The stages are Celery tasks registered under their names (celery_app
\* include): a producer can publish any of them again for a job, outside the
\* chain, with the arguments the chain hands it.  Here this happens while no
\* other task of the job is waiting or running, up to MaxRuns stage
\* executions per job in all, and the record does not expire meanwhile.
MaxRuns == 5

Republish(j, p) ==
  /\ j <= created
  /\ proc[j]["start_pipeline"].st = "succeeded"
  /\ \A q \in Tasks : proc[j][q].st \in {"idle", "succeeded", "failed"}
  /\ LET executions[k \in 0..Len(Chain)] ==
           IF k = 0 THEN 0 ELSE runs[j][Chain[k]] + executions[k - 1]
     IN executions[Len(Chain)] < MaxRuns
  /\ proc' = [proc EXCEPT ![j][p] =
       [IdleProc EXCEPT !.st = "queued", !.arg = <<"direct">>]]
  /\ UNCHANGED <<now, advances, redis, files, created, faulted, last, runs, http, scaled, mesh, jobs, tasks, _pipeline, _model>>

SpecStages ==
  Init /\
  [][ \/ \E j \in JobIds : Upload(j, GoodRequest)
      \/ \E j \in JobIds, p \in Tasks : TaskBegin(j, p)
      \/ \E j \in JobIds : StartPipelineGetJob(j)
      \/ \E j \in JobIds : StartPipelineApplyAsync(j)
      \/ \E j \in JobIds, p \in Stages : RaiseAttributeError(j, p)
      \/ \E j \in JobIds, p \in Tasks : UpdateGet(j, p)
      \/ \E j \in JobIds, p \in Tasks : UpdateTtl(j, p)
      \/ \E j \in JobIds, p \in Tasks : UpdateSetex(j, p)
      \/ \E j \in JobIds, p \in Stages : GetJobStep(j, p)
      \/ \E j \in JobIds, p \in Stages : ExistsStep(j, p)
      \/ \E j \in JobIds, p \in Stages : CallStep(j, p)
      \/ \E j \in JobIds, p \in Stages : SaveStep(j, p)
      \/ \E j \in JobIds, p \in Stages : ReturnStep(j, p)
      \/ \E j \in JobIds, p \in Stages : Republish(j, p) ]_vars

\* ------------------------------------------------------ the upload endpoint
\* Every kind of upload request, and the start of the pipeline of the jobs
\* the accepted ones create.
UploadRequests ==
  { GoodRequest,
    Request("PNG", MAX_CONTENT_LENGTH, TRUE, TRUE),
    Request("png", 1, TRUE, FALSE),
    Request("exe", 1, TRUE, TRUE),
    Request("", 1, TRUE, TRUE),
    Request("png", 0, FALSE, TRUE),
    Request("png", MAX_CONTENT_LENGTH + 1, TRUE, TRUE),
    Request("png", 1, FALSE, TRUE) }

NextUpload ==
  \/ \E j \in JobIds, r \in UploadRequests : Upload(j, r)
  \/ \E j \in JobIds : TaskBegin(j, "start_pipeline")
  \/ \E j \in JobIds : StartPipelineGetJob(j)
  \/ \E j \in JobIds : StartPipelineApplyAsync(j)
  \/ \E j \in JobIds : UpdateGet(j, "start_pipeline")
  \/ \E j \in JobIds : UpdateTtl(j, "start_pipeline")
  \/ \E j \in JobIds : UpdateSetex(j, "start_pipeline")
  \/ \E d \in Deltas : Advance(d)

SpecUpload == Init /\ [][NextUpload]_vars

\* --------------------------------------------------- the job store alone
\* JobService called from outside the pipeline: a record is created, and two
\* callers each make one update_job call on it, interleaved at will.
ClientUpdates ==
  { [progress |-> 50],
    [mesh_path |-> "raw_mesh.ply"],
    [status |-> JobStatus("PREPROCESSING"), progress |-> 0] }

CreateJob(j) ==
  /\ j = created + 1
  /\ created' = j
  /\ create_job(j, "upload")
  /\ UNCHANGED <<now, advances, files, proc, faulted, runs, http, scaled, mesh, jobs, tasks, _pipeline, _model>>

ClientCall(j, c, u) ==
  /\ j <= created
  /\ proc[j][c].st = "idle"
  /\ proc' = [proc EXCEPT ![j][c] = [@ EXCEPT !.st = "running", !.arg = u]]
  /\ UNCHANGED <<now, advances, redis, files, created, faulted, last, runs, http, scaled, mesh, jobs, tasks, _pipeline, _model>>

NextStore ==
  \/ \E j \in JobIds : CreateJob(j)
  \/ \E j \in JobIds, c \in Clients, u \in ClientUpdates : ClientCall(j, c, u)
  \/ \E j \in JobIds, c \in Clients : UpdateGet(j, c)
  \/ \E j \in JobIds, c \in Clients : UpdateTtl(j, c)
  \/ \E j \in JobIds, c \in Clients : UpdateSetex(j, c)
  \/ \E d \in Deltas : Advance(d)

SpecStore == Init /\ [][NextStore]_vars

\* ------------------------------------------------------ the API endpoints
\* ResultService.get_download_path: the file to send, or NotFoundError.
get_download_path(j, format) ==
  IF RedisGet(j) = <<>> THEN "NotFoundError"
  ELSE LET job == RedisGet(j)[1] IN
    IF job.status # JobStatus("DONE") THEN "NotFoundError"
    ELSE IF format = "stl" /\ job.stl_path # Null THEN job.stl_path
    ELSE IF format = "obj" /\ job.obj_path # Null THEN job.obj_path
    ELSE "NotFoundError"

\* GET /download/<job_id>/<format>: the status code of the response.
\* send_file raises on a path that is not there, which the last except
\* clause turns into 500.
download_file(j, format) ==
  IF format \notin {"stl", "obj"} THEN 400
  ELSE LET file_path == get_download_path(j, format) IN
    IF file_path = "NotFoundError" THEN 404
    ELSE IF file_path \in files[j] THEN 200
    ELSE 500

\* GET /job/<job_id>: the status code and the fields of the response.
get_job_status(j) ==
  IF RedisGet(j) = <<>> THEN [code |-> 404, fields |-> {"error"}]
  ELSE LET job == RedisGet(j)[1] IN
    [code |-> 200,
     fields |->
       {"job_id", "status", "progress", "created_at", "updated_at"}
       \cup (IF job.error_message # Null THEN {"error_message"} ELSE {})
       \cup (IF job.error_stage # Null THEN {"error_stage"} ELSE {})]

\* ResultService.get_result: whether the job was found, and the URLs the
\* result carries.
get_result(j) ==
  IF RedisGet(j) = <<>> THEN [found |-> FALSE, urls |-> {}]
  ELSE LET job == RedisGet(j)[1] IN
    [found |-> TRUE,
     urls |->
       (IF job.preprocessed_image # Null THEN {"preprocessed_image"} ELSE {})
       \cup (IF job.obj_path # Null THEN {"preview_obj"} ELSE {})
       \cup (IF job.status = JobStatus("DONE") /\ job.stl_path # Null
             THEN {"stl_download_url"} ELSE {})
       \cup (IF job.status = JobStatus("DONE") /\ job.obj_path # Null
             THEN {"obj_download_url"} ELSE {})]

\* Scale factors and lengths are fixed-point numbers: a factor in thousandths
\* (1004 is 1.004), a length in hundredths of a millimetre.
\* f"{s:.2f}": the factor in hundredths, rounded to the nearest (the factors
\* the requests carry are not on a tie).
Format2f(s) == (s + 5) \div 10

\* The text of a number of hundredths with its two decimals ("1.00").
Text2f(h) ==
  ToString(h \div 100) \o "." \o ToString((h % 100) \div 10) \o ToString(h % 10)

\* scaled_mesh_{x:.2f}x_{y:.2f}x_{z:.2f}x.stl
ScaledFilename(scale) ==
  "scaled_mesh_" \o Text2f(Format2f(scale.x)) \o "x_"
    \o Text2f(Format2f(scale.y)) \o "x_" \o Text2f(Format2f(scale.z)) \o "x.stl"

\* The <format> segment of the download_url the dimension update returns,
\* /api/download/{job_id}/{scaled_filename}, as the download route
\* /download/<job_id>/<format> reads it.
DownloadUrlFormat(scale) == ScaledFilename(scale)

\* POST /dimension/update/<job_id>: the status code of the response.
UpdateDimensionCode(j) ==
  IF RedisGet(j) = <<>> THEN 404
  ELSE IF RedisGet(j)[1].mesh_path = Null THEN 404
  ELSE IF RedisGet(j)[1].mesh_path \notin files[j] THEN 404
  ELSE 200

\* POST /dimension/update/<job_id> with {"scale": {x, y, z}}: the mesh at
\* job["mesh_path"] is loaded, scaled and exported under the scaled name,
\* over any file of that name.
update_dimension(j, scale) ==
  /\ j <= created
  /\ UpdateDimensionCode(j) = 200
  /\ scaled' = [scaled EXCEPT ![j] =
       {a \in @ : a.name # ScaledFilename(scale)}
       \cup {[name |-> ScaledFilename(scale), source |-> RedisGet(j)[1].mesh_path,
               scale |-> scale]}]
  /\ UNCHANGED <<now, advances, redis, files, created, proc, faulted, last, runs,
                 http, mesh, jobs, tasks, _pipeline, _model>>

\* round(a / b, n) on fixed-point numbers: the quotient a * unit / b to the
\* nearest unit.
RoundDiv(a, b, unit) == (2 * a * unit + b) \div (2 * b)

\* POST /dimension/validate/<job_id> with {"dimensions": target}: the status
\* code, the scale factors (in ten-thousandths) and the new dimensions.
validate_dimension(j, target) ==
  LET none == [code |-> 404, scale |-> <<>>, new_dimensions |-> <<>>] IN
  IF RedisGet(j) = <<>> THEN none
  ELSE LET job == RedisGet(j)[1] IN
    IF "mesh_dimensions" \notin DOMAIN job THEN none
    ELSE LET original_dims == job.mesh_dimensions.dimensions
             scale == [x |-> RoundDiv(target.x, original_dims.x_mm, 10000),
                       y |-> RoundDiv(target.y, original_dims.y_mm, 10000),
                       z |-> RoundDiv(target.z, original_dims.z_mm, 10000)]
         IN [code |-> 200, scale |-> scale,
             new_dimensions |->
               [x |-> RoundDiv(original_dims.x_mm * scale.x, 10000, 1),
                y |-> RoundDiv(original_dims.y_mm * scale.y, 10000, 1),
                z |-> RoundDiv(original_dims.z_mm * scale.z, 10000, 1)]]

\* ------------------------------------------- the endpoints over the store
\* The endpoints read whatever record JobService holds and whatever files the
\* storage holds: one job is created, callers of JobService make the calls a
\* worker makes on it, and files come and go in the storage.
ServiceUpdates ==
  { UpdatesOf(Op("set", "preprocessed_image", 0)),
    UpdatesOf(Op("set", "mesh_path", 0)),
    UpdatesOf(Op("done", "", 100)),
    SetErrorUpdates("reconstruct_mesh", ErrorStage("reconstruct_3d")) }

ArtifactFiles == {"raw_mesh.ply", "repaired_mesh.ply", "model.stl", "model.obj"}

\* The scale factors of the dimension update requests.
Scale(x, y, z) == [x |-> x, y |-> y, z |-> z]
Scales == {Scale(1000, 1000, 1000), Scale(1004, 1000, 1000), Scale(1500, 1000, 1000)}

\* LocalStorage.save / a mesh export into the job's directories.
StorageSave(j, f) ==
  /\ j <= created
  /\ f \notin files[j]
  /\ files' = [files EXCEPT ![j] = @ \cup {f}]
  /\ UNCHANGED <<now, advances, redis, created, proc, faulted, last, runs, http, scaled, mesh, jobs, tasks, _pipeline, _model>>

\* LocalStorage.delete
StorageDelete(j, f) ==
  /\ j <= created
  /\ f \in files[j]
  /\ files' = [files EXCEPT ![j] = @ \ {f}]
  /\ UNCHANGED <<now, advances, redis, created, proc, faulted, last, runs, http, scaled, mesh, jobs, tasks, _pipeline, _model>>

NextApi ==
  \/ \E j \in JobIds : created = 0 /\ CreateJob(j)
  \/ \E j \in JobIds, c \in Clients, u \in ServiceUpdates : ClientCall(j, c, u)
  \/ \E j \in JobIds, c \in Clients : UpdateGet(j, c)
  \/ \E j \in JobIds, c \in Clients : UpdateTtl(j, c)
  \/ \E j \in JobIds, c \in Clients : UpdateSetex(j, c)
  \/ \E j \in JobIds, f \in ArtifactFiles : StorageSave(j, f)
  \/ \E j \in JobIds, f \in ArtifactFiles : StorageDelete(j, f)
  \/ \E j \in JobIds, scale \in Scales : update_dimension(j, scale)
  \/ \E d \in Deltas : Advance(d)

SpecApi == Init /\ [][NextApi]_vars

\* ------------------------------------------------------------- mesh calls
\* The meshes given to the validator and the repairer: one to MaxFaces
\* triangles over the vertices, each a triple of distinct vertices in ascending
\* order, or the first triangle wound the other way.
FaceAlphabet ==
  {f \in (1..MaxVertices) \X (1..MaxVertices) \X (1..MaxVertices) :
     f[1] < f[2] /\ f[2] < f[3]}
  \cup {<<3, 2, 1>>}

FaceLists == UNION {[1..n -> FaceAlphabet] : n \in 1..MaxFaces}

InputMeshes == {[layout |-> l, faces |-> fs] : l \in Layouts, fs \in FaceLists}

Loaded(m) ==
  [in |-> m, out |-> m, op |-> "load", failed |-> {}, calls |-> <<>>,
   report |-> <<>>]

InitMesh == InitSystem /\ mesh \in {Loaded(m) : m \in InputMeshes}

SystemUnchanged ==
  UNCHANGED <<now, advances, redis, files, created, proc, faulted, last, runs,
              http, scaled, jobs, tasks, _pipeline, _model>>

\* a repairer method called on the mesh loaded returned r
Called(op, failed, calls, r) ==
  /\ mesh.op = "load"
  /\ mesh' = [in |-> mesh.out, out |-> r, op |-> op, failed |-> failed,
              calls |-> calls, report |-> <<>>]
  /\ SystemUnchanged

Failing(op, ok) == IF ok THEN {} ELSE {op}

\* validator.validate(mesh), on the mesh loaded or on the mesh returned; the
\* ray casting has an outcome only when it is run
CallValidate(ray) ==
  /\ is_watertight(mesh.out) \/ ray = "passes"
  /\ mesh' = [mesh EXCEPT !.report = <<validate(mesh.out, ray)>>]
  /\ SystemUnchanged

\* repairer.merge_close_vertices(mesh)
CallMergeCloseVertices(ok) ==
  Called("merge_close_vertices", Failing("merge_close_vertices", ok), <<>>,
         merge_close_vertices(mesh.out, ok))

\* repairer.remove_degenerate(mesh)
CallRemoveDegenerate(ok) ==
  Called("remove_degenerate", Failing("remove_degenerate", ok), <<>>,
         remove_degenerate(mesh.out, ok))

\* repairer.remove_duplicate_faces(mesh)
CallRemoveDuplicateFaces(ok) ==
  Called("remove_duplicate_faces", Failing("remove_duplicate_faces", ok), <<>>,
         remove_duplicate_faces(mesh.out, ok))

\* repairer.fix_normals(mesh)
CallFixNormals(ok) ==
  Called("fix_normals", Failing("fix_normals", ok), <<>>,
         fix_normals(mesh.out, ok))

\* repairer.fill_holes(mesh)
CallFillHoles(ok) ==
  \E holes \in HoleChoices(mesh.out) :
    Called("fill_holes", Failing("fill_holes", ok), <<>>,
           fill_holes(mesh.out, ok, holes))

\* the steps of one repair that raise: none, or any one of them
FailSets == {{}} \cup {{StepNames[k]} : k \in 1..5}

\* repairer.repair(mesh)
CallRepair(failed) ==
  \E b \in {BeforeFill(mesh.out, failed)} :
    \E holes \in HoleChoices(b[5]) :
      \E calls \in {RepairCalls(b, failed, holes)} :
        Called("repair", failed, calls, calls[5].result)

NextMesh ==
  \/ \E ray \in RayOutcomes : CallValidate(ray)
  \/ \E ok \in BOOLEAN : CallMergeCloseVertices(ok)
  \/ \E ok \in BOOLEAN : CallRemoveDegenerate(ok)
  \/ \E ok \in BOOLEAN : CallRemoveDuplicateFaces(ok)
  \/ \E ok \in BOOLEAN : CallFixNormals(ok)
  \/ \E ok \in BOOLEAN : CallFillHoles(ok)
  \/ \E failed \in FailSets : CallRepair(failed)

SpecMesh == InitMesh /\ [][NextMesh]_vars

\* ------------------------------------------------- the in-memory job queue
\* main.py, routers/jobs.py, workers/task_queue.py and services/hunyuan.py:
\* the jobs live in a dictionary of the process, POST /jobs/<id>/generate-3d
\* creates an asyncio task _run that has generate_3d executed by a thread of
\* the pool and then writes the final status.  The handlers and the _run
\* tasks run on the event loop, one at a time between awaits; the threads of
\* the pool run beside them.
max_workers == 2
MaxTriggers == 2

\* task_queue.update_job: jobs[job_id].update(kwargs) when the job is there
update_job(j, kwargs) ==
  IF jobs[j] = <<>> THEN jobs
  ELSE [jobs EXCEPT ![j] =
          <<[f \in DOMAIN jobs[j][1] \cup DOMAIN kwargs |->
               IF f \in DOMAIN kwargs THEN kwargs[f] ELSE jobs[j][1][f]]>>]

\* lifespan: hunyuan.load_model() before the first request is served; the
\* pipeline is loaded, or _pipeline stays None (mock mode)
lifespan(loaded) ==
  /\ _pipeline = "unset"
  /\ _pipeline' = IF loaded THEN "loaded" ELSE "None"
  /\ UNCHANGED <<now, advances, redis, files, created, proc, faulted, last, runs,
                 http, scaled, mesh, jobs, tasks, _model>>

\* POST /api/upload: the file is stored (with or without its background) and
\* create_job enters the job
upload_image(j, image_path) ==
  /\ _pipeline # "unset"
  /\ jobs[j] = <<>>
  /\ jobs' = [jobs EXCEPT ![j] =
       <<[job_id |-> j, status |-> "pending", progress |-> 0, stage |-> Null,
          error |-> Null, image_path |-> image_path, settings |-> "settings",
          multi_angle_paths |-> <<>>, model_path |-> Null]>>]
  /\ UNCHANGED <<now, advances, redis, files, created, proc, faulted, last, runs,
                 http, scaled, mesh, tasks, _pipeline, _model>>

\* POST /api/jobs/<id>/generate-3d for a job that is there (404 otherwise,
\* with no effect): the status is set to processing and the task _run is
\* created.
trigger_3d(j) ==
  /\ _pipeline # "unset"
  /\ Len(tasks) < MaxTriggers
  /\ jobs[j] # <<>>
  /\ jobs' = update_job(j, [status |-> "processing", stage |-> "3d_generation",
                            progress |-> 0])
  /\ tasks' = Append(tasks, [job |-> j, st |-> "created", pc |-> "", exc |-> ""])
  /\ UNCHANGED <<now, advances, redis, files, created, proc, faulted, last, runs,
                 http, scaled, mesh, _pipeline, _model>>

\* generate_3d in a thread of the pool, one step of task t: the pool gives a
\* thread to the oldest waiting call when fewer than max_workers are busy;
\* the model call and the writing of model.glb return or raise.
generate_3d(t, ok) ==
  LET j == tasks[t].job
      at(pc) == [tasks EXCEPT ![t].pc = pc]
      ends(st, e) == [tasks EXCEPT ![t] = [@ EXCEPT !.st = st, !.pc = "", !.exc = e]]
      pc == tasks[t].pc
  IN
  /\ t \in DOMAIN tasks
  /\ tasks[t].st \in {"waiting", "thread"}
  /\ IF tasks[t].st = "waiting"
     THEN /\ Cardinality({u \in DOMAIN tasks : tasks[u].st = "thread"}) < max_workers
          /\ \A u \in 1..(t - 1) : tasks[u].st # "waiting"
          /\ tasks' = [tasks EXCEPT ![t] = [@ EXCEPT !.st = "thread", !.pc = "begin"]]
          /\ UNCHANGED <<jobs, files>>
     ELSE CASE pc = "begin" ->
                 \* job = get_job(job_id); existing_model and its file there?
                 /\ tasks' = at(IF /\ jobs[j] # <<>>
                                   /\ jobs[j][1].model_path # Null
                                   /\ jobs[j][1].model_path \in files[j]
                                THEN "existing" ELSE "fresh")
                 /\ UNCHANGED <<jobs, files>>
            [] pc = "existing" ->
                 /\ jobs' = update_job(j, [status |-> "processing",
                                           stage |-> "3d_generation", progress |-> 100,
                                           model_path |-> "model.glb"])
                 /\ tasks' = ends("returned", "")
                 /\ UNCHANGED files
            [] pc = "fresh" ->
                 /\ jobs' = update_job(j, [status |-> "processing",
                                           stage |-> "3d_generation", progress |-> 10])
                 /\ tasks' = at("progress")
                 /\ UNCHANGED files
            [] pc = "progress" ->
                 /\ jobs' = update_job(j, [progress |->
                                             IF _pipeline = "loaded" THEN 20 ELSE 50])
                 /\ tasks' = at(IF _pipeline = "loaded" THEN "infer" ELSE "export")
                 /\ UNCHANGED files
            [] pc = "infer" ->
                 /\ IF ok THEN jobs' = update_job(j, [progress |-> 80]) /\ tasks' = at("export")
                          ELSE tasks' = ends("raised", "_pipeline") /\ UNCHANGED jobs
                 /\ UNCHANGED files
            [] pc = "export" ->
                 /\ IF ok THEN files' = [files EXCEPT ![j] = @ \cup {"model.glb"}]
                               /\ tasks' = at("final")
                          ELSE tasks' = ends("raised", "export") /\ UNCHANGED files
                 /\ UNCHANGED jobs
            [] pc = "final" ->
                 /\ jobs' = update_job(j, [progress |-> 100, model_path |-> "model.glb"])
                 /\ tasks' = ends("returned", "")
                 /\ UNCHANGED files
  /\ UNCHANGED <<now, advances, redis, created, proc, faulted, last, runs,
                 http, scaled, mesh, _pipeline, _model>>

\* _run without its except branch: an exception of generate_3d ends the task
\* and nothing is written
_runNoExcept(t) ==
  /\ t \in DOMAIN tasks
  /\ tasks[t].st \in {"created", "returned", "raised"}
  /\ tasks' = [tasks EXCEPT ![t].st = IF tasks[t].st = "created" THEN "waiting" ELSE "done"]
  /\ jobs' = IF tasks[t].st = "returned"
             THEN update_job(tasks[t].job, [status |-> "completed",
                                            stage |-> "3d_generation"])
             ELSE jobs
  /\ UNCHANGED <<now, advances, redis, files, created, proc, faulted, last, runs,
                 http, scaled, mesh, _pipeline, _model>>

\* The task _run of trigger_3d on the event loop: it hands generate_3d to the
\* pool and awaits it; when the call has returned it writes status completed,
\* when it has raised it writes status failed with the error.
_run(t) ==
  /\ t \in DOMAIN tasks
  /\ tasks[t].st \in {"created", "returned", "raised"}
  /\ tasks' = [tasks EXCEPT ![t].st = IF tasks[t].st = "created" THEN "waiting" ELSE "done"]
  /\ jobs' = CASE tasks[t].st = "created" -> jobs
               [] tasks[t].st = "returned" ->
                    update_job(tasks[t].job, [status |-> "completed",
                                              stage |-> "3d_generation"])
               [] tasks[t].st = "raised" ->
                    update_job(tasks[t].job, [status |-> "failed",
                                              error |-> tasks[t].exc])
  /\ UNCHANGED <<now, advances, redis, files, created, proc, faulted, last, runs,
                 http, scaled, mesh, _pipeline, _model>>

SpecQueue ==
  Init /\ [][ \/ \E loaded \in BOOLEAN : lifespan(loaded)
              \/ \E j \in JobIds, image_path \in {"original", "nobg.png"} :
                   upload_image(j, image_path)
              \/ \E j \in JobIds : trigger_3d(j)
              \/ \E t \in 1..MaxTriggers, ok \in BOOLEAN : generate_3d(t, ok)
              \/ \E t \in 1..MaxTriggers : _run(t) ]_vars

\* The event loop runs every task that is ready, and a call handed to the
\* pool is executed and returns or raises.
SpecQueueFair ==
  /\ SpecQueue
  /\ \A t \in 1..MaxTriggers :
       WF_vars(_run(t)) /\ WF_vars(\E ok \in BOOLEAN : generate_3d(t, ok))

\* ------------------------------------------------------ the TripoSR handle
\* ai/triposr.py: the module global _model and the three functions that read
\* or write it.  _model.loads counts the executions of TSR.from_pretrained,
\* _model.calls records each call: the handle before and after it, whether it
\* loaded, and what reconstruct_mesh gave back.
MaxCalls == 4

\* load_model that loads on every call (no "if _model is not None" return)
load_model_always(m, ok) ==
  [handle |-> IF ok THEN [kind |-> "TSR", id |-> m.loads + 1]
                    ELSE [kind |-> "fallback", id |-> 0],
   loads |-> m.loads + 1]

\* load_model on the module state m: the handle and the load count after the
\* call; the handle is also what the call returns.  ok: from_pretrained and
\* the set-up calls succeed; otherwise one of the except branches stores the
\* marker.
load_model(m, ok) ==
  IF m.handle # NoHandle
  THEN [handle |-> m.handle, loads |-> m.loads]
  ELSE [handle |-> IF ok THEN [kind |-> "TSR", id |-> m.loads + 1]
                         ELSE [kind |-> "fallback", id |-> 0],
        loads |-> m.loads + 1]

ModelCall(op, after, out) ==
  /\ Len(_model.calls) < MaxCalls
  /\ _model' = [handle |-> after.handle, loads |-> after.loads,
                calls |-> Append(_model.calls,
                   [op |-> op, before |-> _model.handle, after |-> after.handle,
                    loaded |-> after.loads > _model.loads, out |-> out])]
  /\ UNCHANGED <<now, advances, redis, files, created, proc, faulted, last, runs,
                 http, scaled, mesh, jobs, tasks, _pipeline>>

\* reconstruct_mesh: model = load_model(); the fallback sphere for the marker;
\* otherwise the inference, which gives a mesh or raises, and leaves the
\* handle as it is
reconstruct_mesh(ok, inferred) ==
  \E after \in {load_model(_model, ok)} :
    ModelCall("reconstruct_mesh", after,
           IF after.handle.kind = "fallback" THEN "icosphere"
           ELSE IF inferred THEN "mesh" ELSE "raise")

\* cleanup: a loaded model is deleted and _model is None again; None and the
\* marker are left alone
cleanup ==
  ModelCall("cleanup",
         [handle |-> IF _model.handle.kind = "TSR" THEN NoHandle ELSE _model.handle,
          loads |-> _model.loads], "")

SpecModel ==
  Init /\ [][ \/ \E ok \in BOOLEAN : ModelCall("load_model", load_model(_model, ok), "")
              \/ \E ok \in BOOLEAN, inferred \in BOOLEAN : reconstruct_mesh(ok, inferred)
              \/ cleanup ]_vars

\* ---------------------------------------------------------- wall thickness
\* check_wall_thickness after the ray casting: thicknesses are the distances
\* from the ray origins to the hits (none when no ray hits), scale is
\* mesh.scale.  None is <<>>; round(x, 3) gives thousandths of a millimetre.
MaxSamples == 3

\* The report with "passes" asking for more than the minimum.
thickness_report_strict(thicknesses, scale, min_thickness) ==
  LET valid == SelectSeq(thicknesses, LAMBDA t : 2 * t < scale)
      none == [min_thickness |-> <<>>, avg_thickness |-> <<>>,
               thin_areas |-> 0, passes |-> FALSE]
      total[i \in 0..Len(valid)] == IF i = 0 THEN 0 ELSE valid[i] + total[i - 1]
      min_measured ==
        CHOOSE v \in {valid[i] : i \in DOMAIN valid} :
          \A i \in DOMAIN valid : v <= valid[i]
  IN IF Len(thicknesses) = 0 THEN none
     ELSE IF Len(valid) = 0 THEN none
     ELSE [min_thickness |-> <<RoundDiv(min_measured, 10, 1)>>,
           avg_thickness |-> <<RoundDiv(total[Len(valid)], 10 * Len(valid), 1)>>,
           thin_areas |-> Cardinality({i \in DOMAIN valid : valid[i] < min_thickness}),
           passes |-> min_measured > min_thickness]

thickness_report(thicknesses, scale, min_thickness) ==
  LET valid == SelectSeq(thicknesses, LAMBDA t : 2 * t < scale)
      none == [min_thickness |-> <<>>, avg_thickness |-> <<>>,
               thin_areas |-> 0, passes |-> FALSE]
      total[i \in 0..Len(valid)] == IF i = 0 THEN 0 ELSE valid[i] + total[i - 1]
      min_measured ==
        CHOOSE v \in {valid[i] : i \in DOMAIN valid} :
          \A i \in DOMAIN valid : v <= valid[i]
  IN IF Len(thicknesses) = 0 THEN none
     ELSE IF Len(valid) = 0 THEN none
     ELSE [min_thickness |-> <<RoundDiv(min_measured, 10, 1)>>,
           avg_thickness |-> <<RoundDiv(total[Len(valid)], 10 * Len(valid), 1)>>,
           thin_areas |-> Cardinality({i \in DOMAIN valid : valid[i] < min_thickness}),
           passes |-> min_measured >= min_thickness]

\* A mesh as the ray casting sees it: up to MaxSamples hits, at distances
\* around the default minimum or beyond half of the smaller scale.
InitThickness ==
  /\ InitSystem
  /\ mesh \in
       { [NoMesh EXCEPT !.op = "rays",
                        !.in = [thicknesses |-> t, scale |-> s, min_thickness |-> m]] :
           t \in UNION {[1..n -> {11996, 12000, 12004, 40000}] : n \in 0..MaxSamples},
           s \in {50000, 100000},
           m \in {MIN_WALL_THICKNESS_MM, 12004} }

CallCheckWallThickness ==
  /\ mesh.op = "rays"
  /\ mesh' = [mesh EXCEPT
       !.op = "check_wall_thickness",
       !.report = <<thickness_report(mesh.in.thicknesses, mesh.in.scale,
                                     mesh.in.min_thickness)>>]
  /\ SystemUnchanged

SpecThickness == InitThickness /\ [][CallCheckWallThickness]_vars

\* ================================================================ claims
Present(j) == redis[j] # <<>>
Rec(j) == redis[j][1].val
Written(j) == last[j] # <<>>
LastRec(j) == last[j][1]
Ended(j, p) == proc[j][p].st \in {"succeeded", "failed"}
Earlier(q, p) == q \in Stages /\ p \in Stages /\ ChainIndex(q) < ChainIndex(p)

\* The state machine of spec section 4.5, and the one the chain of
\* start_pipeline walks (it has no multi-angle stage).
SpecSequence ==
  <<"uploaded", "generating_multi_angles", "preprocessing", "reconstructing_3d",
    "rendering_previews", "mesh_repairing", "exporting_stl", "done">>

ChainSequence ==
  <<"uploaded", "preprocessing", "reconstructing_3d", "rendering_previews",
    "mesh_repairing", "exporting_stl", "done">>

StepIn(seq, a, b) == \E i \in 1..(Len(seq) - 1) : seq[i] = a /\ seq[i + 1] = b

StatusSteps(seq) ==
  \A j \in JobIds :
    (Written(j) /\ last'[j] # <<>> /\ last'[j][1].status # LastRec(j).status)
      => \/ last'[j][1].status = "error"
         \/ StepIn(seq, LastRec(j).status, last'[j][1].status)

ChainOver(j) ==
  /\ proc[j]["start_pipeline"].st = "succeeded"
  /\ \A p \in Stages : proc[j][p].st \notin {"queued", "running", "blocked"}

\* C2: when no collaborator, file or broker operation raised and the record
\* did not expire, a job whose chain has run to its end has status DONE.
C2_ReachesDone ==
  \A j \in JobIds :
    (ChainOver(j) /\ ~faulted[j] /\ Present(j) /\ now < Rec(j).created_at + Expiry)
      => Rec(j).status = "done"

SavedBy(q) ==
  { Script(q)[i].a : i \in {k \in 1..Len(Script(q)) : Script(q)[k].op = "save"} }

LaterFiles(p) == UNION { SavedBy(q) : q \in {r \in Stages : Earlier(p, r)} }

\* C4: a record in status ERROR always carries error_message and error_stage
\* (one write sets the three); once a stage has raised and ended, the record,
\* if it is there, is in ERROR with that stage's tag, no later stage of the
\* chain has been published or started, and none of their files exists.
C4_FailureRecorded ==
  \A j \in JobIds :
    /\ (Written(j) /\ LastRec(j).status = "error")
         => LastRec(j).error_message # Null /\ LastRec(j).error_stage # Null
    /\ \A p \in Stages :
         (proc[j][p].exc # "" /\ Ended(j, p)) =>
           /\ Present(j) =>
                /\ Rec(j).status = "error"
                /\ Rec(j).error_message # Null
                /\ Rec(j).error_stage = ErrorStage(p)
           /\ \A q \in Stages : Earlier(p, q) => proc[j][q].st = "idle"
           /\ files[j] \cap LaterFiles(p) = {}

C4_Witness ==
  \E j \in JobIds :
    /\ proc[j]["reconstruct_3d"].exc # "" /\ Ended(j, "reconstruct_3d")
    /\ Present(j) /\ Rec(j).error_stage = "reconstruction"
    /\ "repaired_mesh.ply" \notin files[j]

C6_StagesSequential ==
  \A j \in JobIds : \A p \in Stages :
    proc[j][p].st # "idle" =>
      \A q \in Stages : Earlier(q, p) => proc[j][q].st = "succeeded"

C6_Witness ==
  \E j \in JobIds :
    /\ Running(j, "reconstruct_3d") /\ proc[j]["reconstruct_3d"].phase = "got"
    /\ proc[j]["preprocess_image"].st = "succeeded"

\* C7: at most one task of a job is at or inside an update_job call at any
\* time, and start_pipeline runs exactly once for a job that was uploaded.
C7_SingleWriter ==
  \A j \in JobIds :
    /\ Cardinality({p \in Tasks : AtUpdate(j, p)}) <= 1
    /\ runs[j]["start_pipeline"] <= 1
    /\ Ended(j, "start_pipeline") => runs[j]["start_pipeline"] = 1

C7_Witness ==
  \E j \in JobIds : \E p \in Stages :
    AtUpdate(j, p) /\ proc[j][p].phase = "ttl" /\ runs[j]["start_pipeline"] = 1

\* C8 (SpecStore): when two update_job calls on one job have both returned the
\* job, the stored record holds the fields of both: every field either call
\* named has the value one of them gave it.
C8_NoLostUpdate ==
  \A j \in JobIds :
    LET a == proc[j]["client_a"]
        b == proc[j]["client_b"]
    IN (a.st = "succeeded" /\ b.st = "succeeded" /\ a.ret = "job" /\ b.ret = "job")
         => \A f \in DOMAIN a.arg \cup DOMAIN b.arg :
              \/ f \in DOMAIN a.arg /\ LastRec(j)[f] = a.arg[f]
              \/ f \in DOMAIN b.arg /\ LastRec(j)[f] = b.arg[f]

\* C9: a record always expires exactly JOB_EXPIRY_SECONDS after its creation,
\* whatever updates were made to it.
C9_ExpiryFixed ==
  \A j \in JobIds : Present(j) => redis[j][1].exp = Rec(j).created_at + Expiry

\* C10: once the record of a created job is gone, no step stores it again.
C10_StaysExpired ==
  [][\A j \in JobIds : (j <= created /\ ~Present(j)) => redis'[j] = <<>>]_vars

\* The step is the SETEX that ends an update_job call of p on job j.
SetexStep(j, p) ==
  AtUpdate(j, p) /\ proc[j][p].phase = "ttl" /\ proc'[j][p].phase # "ttl"

\* C11: an update_job call on a record that is there stores a record with the
\* same fields, in which every field the updates name has the value they give
\* and every other field except updated_at has the value it had before.
C11_UpdateFrame ==
  [][\A j \in JobIds : \A p \in Tasks :
       (SetexStep(j, p) /\ Present(j)) =>
         /\ redis'[j] # <<>>
         /\ DOMAIN redis'[j][1].val = DOMAIN Rec(j)
         /\ \A f \in DOMAIN Rec(j) \ {"updated_at"} :
              redis'[j][1].val[f] =
                IF f \in DOMAIN Updates(j, p) THEN Updates(j, p)[f] ELSE Rec(j)[f]]_vars

C11_Witness ==
  \E j \in JobIds :
    /\ Present(j) /\ Rec(j).mesh_path = "raw_mesh.ply"
    /\ Rec(j).preprocessed_image = "preprocessed.png"
    /\ Rec(j).progress = 65 /\ Rec(j).image_path = "upload"
    /\ Rec(j).error_stage = Null

\* C12: when a collaborator call or a file write of a stage raised and the job
\* is in ERROR with the tag of that stage, the stage was executed more than
\* once (it was retried before its failure became final).
C12_RetriedBeforeTerminal ==
  \A j \in JobIds : \A p \in Stages :
    (/\ faulted[j] /\ Present(j)
     /\ Rec(j).status = "error" /\ Rec(j).error_stage = ErrorStage(p))
      => runs[j][p] > 1

\* C13: when no step of the system is possible any more, every stage that
\* was started has ended: it returned, or it failed and the job is in ERROR.
C13_NoStageBlocksForever ==
  (~ENABLED Next) =>
    \A j \in JobIds : \A p \in Stages :
      proc[j][p].st \in {"idle", "succeeded", "failed"}

Formats == {"stl", "obj"}

FormatPath(j, format) == IF format = "stl" THEN Rec(j).stl_path ELSE Rec(j).obj_path

\* C14 (SpecApi): for a format of stl or obj, the download answers 200 with the
\* file when the record is there, its status is DONE, the path of the format
\* is set and the file exists, and answers 404 in every other case.
C14_DownloadOr404 ==
  \A j \in JobIds : \A format \in Formats :
    download_file(j, format) =
      IF /\ Present(j) /\ Rec(j).status = "done"
         /\ FormatPath(j, format) # Null /\ FormatPath(j, format) \in files[j]
      THEN 200 ELSE 404

\* Stage p of job j has written its file f and has not failed.
Produced(j, p, f) ==
  f \in SavedBy(p) /\ f \in files[j] /\ proc[j][p].st \in {"running", "succeeded"}

FailsValidation(r) ==
  \/ r.ext = ""
  \/ Lower(r.ext) \notin ALLOWED_EXTENSIONS
  \/ r.size = 0
  \/ r.size > MAX_CONTENT_LENGTH
  \/ ~r.image

\* C17 (SpecUpload): an upload that fails validation gets a 4xx answer and
\* changes nothing (no file, no record, no task); a step creates a job only
\* for a request that passed validation and was stored, and that step stores
\* the file and the record and queues start_pipeline.
C17_RejectedUploadNoEffect ==
  [][/\ (http' # http /\ FailsValidation(http'.req)) =>
          /\ http'.code \in 400..499
          /\ UNCHANGED <<files, redis, last, created, proc, runs>>
     /\ created' # created =>
          /\ http'.code = 201
          /\ ~FailsValidation(http'.req) /\ http'.req.saved
          /\ "upload" \in files'[created']
          /\ redis'[created'] # <<>>
          /\ proc'[created']["start_pipeline"].st = "queued"]_vars

C17_Witness ==
  /\ http.code = 400 /\ ~http.req.image /\ http.req.size > 0
  /\ created = 0
  /\ \A j \in JobIds : redis[j] = <<>> /\ files[j] = {}

\* The dimensions export_mesh records for the mesh of a finished job, and a
\* target size, in hundredths of a millimetre.
AnalysisDimensions == [x |-> 4520, y |-> 3000, z |-> 1250]
TargetDimensions == [x |-> 5000, y |-> 3000, z |-> 2500]

\* C18 (SpecApi): for a stored record in DONE with its analysis recorded, the
\* dimension validate operation answers 200 with the scale factors
\* target / original to 4 decimals and the new dimensions original * scale
\* to 2 decimals.
C18_ValidateScales ==
  \A j \in JobIds :
    (Present(j) /\ Rec(j).status = "done" /\ Rec(j).analysis_data # Null) =>
      LET r == validate_dimension(j, TargetDimensions) IN
        /\ r.code = 200
        /\ r.scale =
             [a \in {"x", "y", "z"} |->
                RoundDiv(TargetDimensions[a], AnalysisDimensions[a], 10000)]
        /\ r.new_dimensions =
             [a \in {"x", "y", "z"} |->
                RoundDiv(AnalysisDimensions[a] * r.scale[a], 10000, 1)]

\* C19 (SpecApi): every scaled mesh in a job's directory was made from the
\* repaired mesh of the job, the output of the repair stage.
C19_ScalesRepairedMesh ==
  \A j \in JobIds : \A a \in scaled[j] : a.source = "repaired_mesh.ply"

\* The frame half of C19: a dimension update leaves the record, the exported
\* model files and the raw and repaired meshes as they are.
DimensionUpdateFrame ==
  [][scaled' # scaled => UNCHANGED <<redis, last, files>>]_vars

\* C20 (SpecApi): a dimension update never replaces a scaled mesh that was
\* made with other scale factors: every scaled mesh of a job is still there
\* after the step, or was written again with the same factors.
C20_ScaledNeverOverwritten ==
  [][\A j \in JobIds : \A a \in scaled[j] :
       \E b \in scaled'[j] : b.name = a.name /\ b.scale = a.scale]_vars

\* C21 (SpecApi): while the record is there, requesting the download URL a
\* dimension update returned for a scaled mesh that is in the job's directory
\* is answered with the file (200), not with an error.
C21_ScaledUrlServed ==
  \A j \in JobIds : \A a \in scaled[j] :
    Present(j) => download_file(j, DownloadUrlFormat(a.scale)) = 200

C23_RayFailureOmitsThickness ==
  [][(CallValidate("raises") /\ is_watertight(mesh.out)) =>
       /\ mesh'.report[1].wall_thickness = <<>>
       /\ \A k \in {"watertight", "manifold", "degenerate_faces", "is_valid"} :
            mesh'.report[1][k] = validate(mesh.out, "passes")[k]]_vars

\* the faces a side between two vertices belongs to
IncidentFaces(m, e) ==
  {i \in FaceIds(m) : e \subseteq {m.faces[i][1], m.faces[i][2], m.faces[i][3]}}

\* every undirected side of the mesh belongs to exactly two of its faces
EveryEdgeInTwoFaces(m) ==
  \A e \in {{x[1], x[2]} : x \in edges_unique(m)} :
    Cardinality(IncidentFaces(m, e)) = 2

\* C24 (SpecMesh): in every validation report, watertight and manifold are both
\* true exactly when every undirected edge of the mesh validated is incident to
\* exactly two faces, and so are equal.
C24_WatertightIffManifold ==
  mesh.report # <<>> =>
    /\ mesh.report[1].watertight = EveryEdgeInTwoFaces(mesh.out)
    /\ mesh.report[1].manifold = EveryEdgeInTwoFaces(mesh.out)

\* every face of the mesh has three distinct vertices
ProperFaces(m) ==
  \A i \in FaceIds(m) :
    Cardinality({m.faces[i][1], m.faces[i][2], m.faces[i][3]}) = 3

\* C24 amended (SpecMesh): in every validation report of a mesh that has a face,
\* watertight and manifold are equal, and when every face has three distinct
\* vertices they are true exactly when every undirected edge is incident to
\* exactly two faces.
C24_NonEmptyWatertightIffManifold ==
  (mesh.report # <<>> /\ ~is_empty(mesh.out)) =>
    /\ mesh.report[1].watertight = mesh.report[1].manifold
    /\ ProperFaces(mesh.out) =>
         mesh.report[1].watertight = EveryEdgeInTwoFaces(mesh.out)

\* a closed mesh was validated: watertight and manifold
C24_Witness ==
  /\ mesh.report # <<>>
  /\ ProperFaces(mesh.out)
  /\ EveryEdgeInTwoFaces(mesh.out)
  /\ mesh.report[1].watertight /\ mesh.report[1].manifold
  /\ mesh.op = "load"

\* C25 (SpecMesh): the mesh remove_degenerate returns has no degenerate face,
\* whatever is left of it and whether or not the rebuild worked.
C25_NoDegenerateAfterRemoval ==
  mesh.op = "remove_degenerate" => has_degenerate_faces(mesh.out) = 0

\* the vertex sets of the faces of a mesh
FaceSets(m) == {{m.faces[i][1], m.faces[i][2], m.faces[i][3]} : i \in FaceIds(m)}

FaceSet(f) == {f[1], f[2], f[3]}

\* C26 (SpecMesh): the mesh remove_duplicate_faces returns has no two faces on
\* the same three vertices, has one face for every vertex set of the input, that
\* face being the first of the input on those vertices, so that the faces
\* removed are the input's faces less its distinct vertex sets.
C26_DuplicatesRemoved ==
  mesh.op = "remove_duplicate_faces" =>
    /\ \A i, k \in FaceIds(mesh.out) :
         FaceSet(mesh.out.faces[i]) = FaceSet(mesh.out.faces[k]) => i = k
    /\ FaceSets(mesh.out) = FaceSets(mesh.in)
    /\ \A i \in FaceIds(mesh.out) :
         \E k \in FaceIds(mesh.in) :
           /\ mesh.in.faces[k] = mesh.out.faces[i]
           /\ \A h \in 1..(k - 1) :
                FaceSet(mesh.in.faces[h]) # FaceSet(mesh.in.faces[k])
    /\ Len(mesh.in.faces) - Len(mesh.out.faces)
         = Len(mesh.in.faces) - Cardinality(FaceSets(mesh.in))

\* ------------------------------------------------------------- mesh files
\* What trimesh.load returns for a file: a mesh, or a scene that holds up to
\* MaxGeometries meshes.  A mesh is here its vertex table and its faces.
MaxGeometries == 2

\* the mesh with the vertices and faces of m
Geometry(m) ==
  [vertices |-> [v \in 1..MaxVertices |-> Pos(m.layout, v)], faces |-> m.faces]

Geometries == {Geometry(m) : m \in {x \in InputMeshes : Len(x.faces) = 1}}

Containers ==
  {[scene |-> FALSE, geometry |-> <<g>>] : g \in Geometries}
  \cup {[scene |-> TRUE, geometry |-> gs] :
          gs \in UNION {[1..n -> Geometries] : n \in 0..MaxGeometries}}

NoGeometry == [vertices |-> <<>>, faces |-> <<>>]

concatenate_first(meshes) == meshes[1]

\* trimesh.util.concatenate: the vertex tables one after the other, the faces
\* one after the other with their indices moved past the vertices before them
RECURSIVE concatenate(_)
concatenate(meshes) ==
  IF Len(meshes) = 1 THEN meshes[1]
  ELSE LET front == concatenate(SubSeq(meshes, 1, Len(meshes) - 1))
           back  == meshes[Len(meshes)]
           shift == Len(front.vertices)
       IN  [vertices |-> front.vertices \o back.vertices,
            faces    |-> front.faces \o
               [i \in DOMAIN back.faces |->
                  [s \in 1..3 |-> back.faces[i][s] + shift]]]

\* MeshConverter.from_file on a loaded container: [raised, mesh]
from_file(c) ==
  IF ~c.scene THEN [raised |-> FALSE, mesh |-> c.geometry[1]]
  ELSE IF Len(c.geometry) = 0 THEN [raised |-> TRUE, mesh |-> NoGeometry]
  ELSE IF Len(c.geometry) = 1 THEN [raised |-> FALSE, mesh |-> c.geometry[1]]
  ELSE [raised |-> FALSE, mesh |-> concatenate(c.geometry)]

InitLoad ==
  /\ InitSystem
  /\ mesh \in {[in |-> c, out |-> NoGeometry, op |-> "file", failed |-> {},
                 calls |-> <<>>, report |-> <<>>] : c \in Containers}

\* converter.from_file(path)
CallFromFile ==
  /\ mesh.op = "file"
  /\ mesh' = [mesh EXCEPT !.op = "from_file",
                          !.out = from_file(mesh.in).mesh,
                          !.failed = IF from_file(mesh.in).raised
                                     THEN {"from_file"} ELSE {}]
  /\ SystemUnchanged

NextLoad == CallFromFile

SpecLoad == InitLoad /\ [][NextLoad]_vars

RECURSIVE SumOver(_, _)
SumOver(seq, field) ==
  IF seq = <<>> THEN 0
  ELSE Len(seq[1][field]) + SumOver(Tail(seq), field)

\* the positions of the three corners of face i of mesh g
Corners(g, i) == [s \in 1..3 |-> g.vertices[g.faces[i][s]]]

\* C28 (SpecLoad): from_file returns the mesh of a file that holds one, the
\* geometry of a scene that holds one, for a scene of several a mesh with all
\* their vertices and all their faces (the counts are the sums, every face on
\* the corners it had), and raises for a scene that holds none.
C28_FromFileFlattens ==
  mesh.op = "from_file" =>
    LET gs == mesh.in.geometry
    IN  /\ ("from_file" \in mesh.failed) = (Len(gs) = 0)
        /\ Len(gs) = 1 => mesh.out = gs[1]
        /\ Len(gs) > 1 =>
             /\ Len(mesh.out.vertices) = SumOver(gs, "vertices")
             /\ Len(mesh.out.faces) = SumOver(gs, "faces")
             /\ \A k \in DOMAIN gs : \A i \in DOMAIN gs[k].faces :
                  Corners(mesh.out, SumOver(SubSeq(gs, 1, k - 1), "faces") + i)
                    = Corners(gs[k], i)

\* a scene of two geometries was loaded and flattened
C28_Witness ==
  /\ mesh.op = "from_file"
  /\ mesh.in.scene /\ Len(mesh.in.geometry) = 2
  /\ mesh.failed = {}
  /\ Len(mesh.out.faces) = 2

\* what the step named returns for mesh m when its library calls work; the
\* hole filling returns one of the meshes its choice of holes allows
StepResults(name, m) ==
  CASE name = "merge_close_vertices"   -> {merge_close_vertices(m, TRUE)}
    [] name = "remove_degenerate"      -> {remove_degenerate(m, TRUE)}
    [] name = "remove_duplicate_faces" -> {remove_duplicate_faces(m, TRUE)}
    [] name = "fix_normals"            -> {fix_normals(m, TRUE)}
    [] name = "fill_holes"             ->
         {fill_holes(m, TRUE, holes) : holes \in HoleChoices(m)}

\* C30 (SpecMesh): a repair returns a mesh and leaves the mesh it was given as
\* it was; it calls merge_close_vertices, remove_degenerate,
\* remove_duplicate_faces, fix_normals, fill_holes in this order, the first on
\* the mesh given and each of the others on what the step before returned; a
\* step that fails returns the mesh it was called on.
C30_RepairStepsInOrder ==
  mesh.op = "repair" =>
    /\ Len(mesh.calls) = 5
    /\ mesh.calls[1].given = mesh.in
    /\ mesh.out = mesh.calls[5].result
    /\ \A k \in 1..5 :
         /\ mesh.calls[k].name = StepNames[k]
         /\ k > 1 => mesh.calls[k].given = mesh.calls[k - 1].result
         /\ IF mesh.calls[k].name \in mesh.failed
            THEN mesh.calls[k].result = mesh.calls[k].given
            ELSE mesh.calls[k].result
                   \in StepResults(mesh.calls[k].name, mesh.calls[k].given)

\* a repair whose degenerate removal failed on a mesh with a degenerate face,
\* which the later steps were then given
C30_Witness ==
  /\ mesh.op = "repair"
  /\ mesh.failed = {"remove_degenerate"}
  /\ has_degenerate_faces(mesh.calls[2].given) > 0
  /\ mesh.calls[3].given = mesh.calls[2].given

\* the stage of the job is inside a call into a model (rembg, TripoSR)
Invoking(j, p) ==
  /\ proc[j][p].st \in {"running", "blocked"}
  /\ proc[j][p].exc = ""
  /\ proc[j][p].pc \in DOMAIN Script(p)
  /\ CurOp(j, p).op = "call"
  /\ CurOp(j, p).a \in ModelCalls

Recorded(j, p) ==
  CASE p = "preprocess_image" -> Rec(j).preprocessed_image = "preprocessed.png"
    [] p = "reconstruct_3d" -> Rec(j).mesh_path = "raw_mesh.ply"
    [] p = "render_previews" ->
         Rec(j).multi_angle_images = SetValue("multi_angle_images")
    [] p = "repair_mesh" ->
         \E f \in DOMAIN Rec(j) \ {"id", "progress", "created_at", "updated_at",
                                   "multi_angle_images"} :
            Rec(j)[f] = "repaired_mesh.ply"
    [] p = "export_mesh" ->
         Rec(j).stl_path = "model.stl" /\ Rec(j).obj_path = "model.obj"

\* C31 (SpecStages): when a stage has returned and the record of the job is
\* there, the record names the artifact of the stage: the preprocessed image
\* after preprocess_image, the raw mesh after reconstruct_3d, the preview
\* images after render_previews, the repaired mesh after repair_mesh, the STL
\* and OBJ paths after export_mesh.
C31_ArtifactRecorded ==
  \A j \in JobIds : \A p \in Stages :
    (proc[j][p].st = "succeeded" /\ Present(j)) => Recorded(j, p)

\* The exceptions a stage raises when what it reads is not there.
InputMissing == {"FileNotFoundError", "ValueError"}

\* C32 (SpecStages): a stage that is executed again for a job, with its inputs
\* there and no call or file write of the job having raised, has written the
\* files of its first execution when it ends, under the same names
\* (preprocessed.png; raw_mesh.ply; angle_0/90/180/270.png; repaired_mesh.ply;
\* model.stl and model.obj), and the job's directories hold no file under
\* another name.
C32_RerunSameFiles ==
  \A j \in JobIds :
    /\ files[j] \subseteq {"upload"} \cup UNION {SavedBy(q) : q \in Stages}
    /\ \A p \in Stages :
         (/\ runs[j][p] >= 2 /\ Ended(j, p) /\ ~faulted[j]
          /\ proc[j][p].exc \notin InputMissing)
           => SavedBy(p) \subseteq files[j]

\* C33 (SpecThickness): with the valid samples being the distances below half
\* the mesh scale, the report of check_wall_thickness has passes true exactly
\* when no valid sample is below the threshold, thin_areas the number of valid
\* samples below the threshold, hence passes exactly when thin_areas is 0
\* whenever a valid sample exists; with no hit or no valid sample the report
\* is min None, avg None, thin_areas 0, passes False.
C33_ThicknessReport ==
  mesh.op = "check_wall_thickness" =>
    LET r == mesh.report[1]
        t == mesh.in.thicknesses
        ok == {i \in DOMAIN t : 2 * t[i] < mesh.in.scale}
        thin == {i \in ok : t[i] < mesh.in.min_thickness}
    IN IF ok = {}
       THEN r = [min_thickness |-> <<>>, avg_thickness |-> <<>>,
                 thin_areas |-> 0, passes |-> FALSE]
       ELSE /\ \E k \in ok : /\ \A i \in ok : t[k] <= t[i]
                            /\ r.passes = (t[k] >= mesh.in.min_thickness)
            /\ r.thin_areas = Cardinality(thin)
            /\ r.passes <=> r.thin_areas = 0
            /\ r.min_thickness # <<>> /\ r.avg_thickness # <<>>

\* a report with a valid sample exactly at the threshold and one left out for
\* being beyond half the scale
C33_Witness ==
  /\ mesh.op = "check_wall_thickness"
  /\ mesh.report[1].passes
  /\ mesh.report[1].min_thickness = <<1200>>
  /\ \E i \in DOMAIN mesh.in.thicknesses : 2 * mesh.in.thicknesses[i] >= mesh.in.scale

\* C34 (SpecStages): a stored record whose status is DONE has progress 100 and
\* its stl_path, obj_path and analysis_data set; set_done writes the five in
\* one update, so no state of the store shows DONE without them.
C34_DoneComplete ==
  \A j \in JobIds :
    (Present(j) /\ Rec(j).status = JobStatus("DONE")) =>
      /\ Rec(j).progress = 100
      /\ Rec(j).stl_path # Null
      /\ Rec(j).obj_path # Null
      /\ Rec(j).analysis_data # Null

\* export_mesh has run to its end and the record shows DONE
C34_Witness ==
  \E j \in JobIds :
    /\ Present(j) /\ Rec(j).status = JobStatus("DONE")
    /\ proc[j]["export_mesh"].st = "succeeded"

\* C35 (SpecStages): the progress of every record stored, and of every record
\* a JobService call wrote, is an integer from 0 to 100, whether create_job,
\* update_status, update_progress or set_done wrote it.
C35_ProgressInRange ==
  \A j \in JobIds :
    /\ Present(j) => Rec(j).progress \in 0..100
    /\ Written(j) => LastRec(j).progress \in 0..100

\* update_status wrote 90 with EXPORTING_STL, and set_done wrote 100
C35_Witness ==
  \E j \in JobIds :
    /\ Written(j) /\ LastRec(j).status = JobStatus("DONE") /\ LastRec(j).progress = 100
    /\ runs[j]["export_mesh"] = 1

\* The step is an operation on job a: a JobService call, a statement of one
\* of its tasks, or a file written for it.
OperationOn(a) ==
  /\ now' = now
  /\ redis'[a] # redis[a] \/ proc'[a] # proc[a] \/ files'[a] # files[a]

\* C36 (SpecJobs): a step that is an operation on job a (its creation, an
\* update_job call of one of its tasks, set_error after a stage of it failed)
\* leaves the stored record and the expiry instant of every other job b as
\* they were, so a failing stage of a never changes the status of b; and when
\* time passes the record of b goes exactly when its own expiry instant has
\* come, whatever the other jobs are.
C36_JobsIsolated ==
  [][\A a \in GpuJobIds : \A b \in GpuJobIds \ {a} :
       /\ OperationOn(a) => redis'[b] = redis[b] /\ last'[b] = last[b]
       /\ now' # now =>
            redis'[b] = IF redis[b] # <<>> /\ redis[b][1].exp <= now'
                        THEN <<>> ELSE redis[b]]_vars

\* a stage of one job has failed and the job is in ERROR, the other job is
\* under way with its record at a later expiry instant
C36_Witness ==
  \E a \in GpuJobIds : \E b \in GpuJobIds \ {a} :
    /\ Present(a) /\ Rec(a).status = JobStatus("ERROR")
    /\ proc[a]["preprocess_image"].st = "failed"
    /\ Present(b) /\ Rec(b).status = JobStatus("RECONSTRUCTING_3D")
    /\ redis[a][1].exp # redis[b][1].exp


\* C37: in the in-memory job queue a job whose status is completed or failed
\* keeps that status in every later step, whatever trigger_3d requests are
\* made on it and however they interleave with a running generation.
C37_TerminalStatusKept ==
  [][\A j \in JobIds :
       (jobs[j] # <<>> /\ jobs[j][1].status \in {"completed", "failed"})
         => jobs'[j][1].status = jobs[j][1].status]_vars

\* C38: a job whose status is processing (trigger_3d was accepted) later has
\* the status completed or failed, and in every reachable state a completed
\* job has its model_path and a failed job has its error.
C38_TriggerResolves ==
  /\ \A j \in JobIds :
       (jobs[j] # <<>> /\ jobs[j][1].status = "processing")
         ~> (jobs[j] # <<>> /\ jobs[j][1].status \in {"completed", "failed"})
  /\ [](\A j \in JobIds : jobs[j] # <<>> =>
          /\ jobs[j][1].status = "completed" => jobs[j][1].model_path # Null
          /\ jobs[j][1].status = "failed" => jobs[j][1].error # Null)

C38_Witness ==
  \E t \in DOMAIN tasks :
    /\ tasks[t].st = "done"
    /\ tasks[t].exc # ""
    /\ jobs[tasks[t].job][1].status = "failed"
    /\ jobs[tasks[t].job][1].error = tasks[t].exc


\* C39: the TripoSR handle is initialised at most once: the model is loaded
\* at most one time, after a load_model call the handle is a loaded model or
\* the fallback marker, every later load_model call returns the value the
\* first one returned, a handle that became the fallback marker stays the
\* marker, and with the marker reconstruct_mesh returns the fallback sphere.
C39_InitialisedOnce ==
  LET c == _model.calls
      loads == {i \in DOMAIN c : c[i].op = "load_model"}
  IN /\ _model.loads <= 1
     /\ \A i \in loads : c[i].after.kind \in {"TSR", "fallback"}
     /\ \A i \in loads, k \in loads : c[i].after = c[k].after
     /\ \A i \in DOMAIN c : c[i].before.kind = "fallback" => c[i].after.kind = "fallback"
     /\ \A i \in DOMAIN c :
          (c[i].op = "reconstruct_mesh" /\ c[i].after.kind = "fallback")
            => c[i].out = "icosphere"

\* C39 as the code has it: the model is loaded only by a call that finds the
\* handle None, so at most once more than cleanup has reset a loaded model;
\* after a load_model call the handle is a loaded model or the marker; two
\* load_model calls with no resetting cleanup between them return the same
\* value; the marker stays the marker, through cleanup too; and with the
\* marker reconstruct_mesh returns the fallback sphere.
C39_InitialisedWhenNone ==
  LET c == _model.calls
      loads == {i \in DOMAIN c : c[i].op = "load_model"}
      resets == {i \in DOMAIN c : c[i].op = "cleanup" /\ c[i].after # c[i].before}
  IN /\ \A i \in DOMAIN c : c[i].loaded => c[i].before = NoHandle
     /\ _model.loads <= 1 + Cardinality(resets)
     /\ \A i \in loads : c[i].after.kind \in {"TSR", "fallback"}
     /\ \A i \in loads, k \in loads :
          (i < k /\ \A r \in resets : r < i \/ r > k) => c[i].after = c[k].after
     /\ \A i \in resets : c[i].before.kind = "TSR" /\ c[i].after = NoHandle
     /\ \A i \in DOMAIN c : c[i].before.kind = "fallback" => c[i].after.kind = "fallback"
     /\ \A i \in DOMAIN c :
          (c[i].op = "reconstruct_mesh" /\ c[i].after.kind = "fallback")
            => c[i].out = "icosphere"

C39_Witness ==
  LET c == _model.calls
  IN /\ Len(c) = 4
     /\ c[1].op = "load_model" /\ c[1].after.kind = "fallback"
     /\ c[2].op = "cleanup"
     /\ c[3].op = "load_model" /\ ~c[3].loaded
     /\ c[4].op = "reconstruct_mesh" /\ c[4].out = "icosphere"

====
